---------------------------- MODULE Spec2Model ----------------------------
(***************************************************************************)
(* nsq-rs: the Topic fan-out (src/src/nsqd/topic.rs), the Channel          *)
(* (src/src/nsqd/channel.rs), the deferred-message heap entries            *)
(* (src/src/nsqd/message.rs) and the subscriber side of the ready buffer   *)
(* (src/src/nsqd/client_v2.rs).                                            *)
(*                                                                         *)
(* Specifications:                                                         *)
(*   Spec          the Topic as the source has it.  The task add_channel   *)
(*                 spawns builds the future channel.serve(rx) and does not *)
(*                 await it (topic.rs:54), so the future and the receiver  *)
(*                 it owns are dropped when the task runs.                 *)
(*   SpecServe     the same Topic with the future of Channel::serve        *)
(*                 polled, as a caller awaiting channel.serve(rx) drives   *)
(*                 it: the behaviours of the serve loop itself.            *)
(*   SpecClients   one Channel and concurrent callers of add_client and    *)
(*                 exit.                                                   *)
(*   SpecDeferred  one Channel, push_defered_msg and pop_defered_msg       *)
(*                 against a clock.                                        *)
(***************************************************************************)
EXTENDS Integers, Sequences, FiniteSets, TLC

\* ------------------------------------------------------------------ bounds
\* opts.mem_queue_size (10000 in options.rs:86), kept small
MemQueueSize == 1
\* opts.max_channel_subscribers (todo!() in options.rs:121)
MaxChannelSubscribers == 2
\* number of put_msg calls of a behaviour
MaxMsgs == 2
\* number of Topic::close calls of a behaviour
MaxClose == 1
\* the clock's last tick
MaxTime == 1
\* the largest deferral of a message
MaxDelay == 1
\* entries the deferred heap holds, and the message ids pushed to it
MaxHeap == 2
\* concurrent callers of a Channel's add_client / exit
NumProcs == 2
\* add_client / exit calls of a behaviour
MaxCalls == 4
\* lines a connection sends
MaxLines == 2
\* the largest count of an RDY
MaxRdy == 1
\* heartbeats written to a connection
MaxBeats == 1
\* guid.rs:8-9 (10 and 12 bits), guid.rs:15 (1288834974288) and the 64 bits of
\* Guid (guid.rs:27), kept small: the same layout on a narrower word
NODE_ID_BITS == 1
SEQUENCE_BITS == 1
TWEPOCH == 2
GuidWidth == 5
\* results of a decoder's calls on one stream, and the bytes of a chunk
MaxDecodes == 3
MaxChunk == 30
\* the largest node id of a factory, the largest reading of the clock, and the
\* new_guid calls of a behaviour
MaxNodeId == 2
MaxClock == 6
MaxGuidCalls == 5
\* Names checked: every string of at most MaxNameLen bytes of NameAlphabet, and
\* runs of at most MaxRun bytes 'a' alone or before a suffix.
MaxNameLen == 3
MaxRun == 66
\* Message bodies and response payloads: every string of at most MaxBodyLen
\* bytes of NameAlphabet (and the bodies of MsgBodies).
MaxBodyLen == 1
\* Connection tasks of the accept loop running at once.
MaxConns == 1
\* The 64 bits of u64 and i64 (codec_sub_v2.rs:59), kept small: counts and
\* timeouts are numbers of U64Width bits.
U64Width == 4
\* guid_to_hex calls of a behaviour
MaxHexCalls == 2
\* Shutdown handles (NSQD's and its clones), values sent on shutdown_tx, and
\* recv() calls that return on one handle
MaxHandles == 3
MaxSignals == 1
MaxRecvs == 2
\* Message ids sent with FIN, TOUCH and REQ: of 0 to MSG_ID_LENGTH + MaxIdExtra bytes.
MaxIdExtra == 2
\* Bodies on the wire: every string of at most MaxWireBody bytes of 'x' and
\* '\n', and at most MaxWireMsgs of them in an MPUB.
MaxWireBody == 2
MaxWireMsgs == 2
MaxCounterCalls == 6

ChannelNames == {"a", "b"}
ClientIds == 1..(MaxChannelSubscribers + 1)
Bodies == {"x", "y"}
BodyOf(k) == IF k % 2 = 1 THEN "x" ELSE "y"
Procs == 1..NumProcs

\* ------------------------------------------------------------------- state
VARIABLES
    channel_map,   \* Topic.channel_map: name -> 0 (absent) or the index of the Channel object created for it
    txGen,         \* which broadcast::Sender Topic.mem_msg_tx holds: 0 the one of Topic::new, k the tmp_tx of the k-th close
    bcLog,         \* per sender: the values sent on it while it had a receiver, oldest first
    rx,            \* per channel name: the broadcast::Receiver made by add_channel: [gen, next, alive]
    task,          \* per channel name: where the task spawned by add_channel is
    clients,       \* Channel.state.clients (ids)
    exit_flag,     \* Channel.exit_flag
    mem,           \* Channel.mem_msg_tx / mem_msg_rx: the bounded ready buffer
    memClosed,     \* the ready buffer was closed
    inhand,        \* the message serve is sending to the ready buffer (<<>> or <<msg>>)
    defered_pq,    \* Channel.state.defered_pq: entries [deadline, msg, pushedAt]
    now,           \* SystemTime::now()
    pc,            \* per caller: position in add_client / exit
    arg,           \* per caller: the client id passed to add_client
    snap,          \* per caller: the registry when the caller took the state lock
    res,           \* per caller: its last call: [op, r, inserted]
    calls,         \* calls made
    lock,          \* owner of Channel.state's Mutex (0: free)
    pubLog,        \* history: one record per put_msg call
    serveRecv,     \* history: per channel, the messages its serve loop received
    popLog,        \* history: per channel, the messages taken from its ready buffer
    created,       \* history: per name, Channel::new calls made by add_channel
    subscribed,    \* history: per name, mem_msg_tx.subscribe() calls made by add_channel
    addResults,    \* history: the <<name was in the map, result>> pairs add_channel calls returned
    lastPop,       \* history: the pop_defered_msg call just made: [valid, curr, ret, before]
    closeRuns,     \* history: how many times exit's close loop ran
    closedClients, \* history: the consumers close() was called on
    subPc,         \* per connection: where the task running SubscriberV2::serve is
    clientPc,      \* per connection: where the task running ClientV2::serve is
    counter,       \* per connection: SubscriberV2.counter
    written,       \* per connection: what serve wrote to the socket, oldest first
    connLog,       \* history: per connection, what it sent and what it was handed
    factory,       \* a GuidFactory: [node_id, sequence, last_timestamp, last_id]
    issued,        \* history: the new_guid calls made: [ts, res, id, f]
    codec,         \* a CodecV2: [next_index, frame]
    src,           \* the BytesMut the decoder is called on
    stream,        \* the bytes the connection sends, and how many were appended to src
    decoded,       \* history: what the decode calls returned, Ok(None) left out
    input,         \* the argument of the function under check
    output,        \* what the function returned for it
    nsqd           \* an NSQD and the tasks of NSQD::start: [cancelled, start, tx, accept, conns, accepted,
                   \* topic_map, topics, published, shutdown_tx, signals, handles]

topicVars == <<channel_map, txGen, bcLog, rx, task>>
chanVars == <<clients, exit_flag, mem, memClosed, inhand, defered_pq>>
procVars == <<pc, arg, snap, res, calls, lock>>
histVars == <<pubLog, serveRecv, popLog, created, subscribed, addResults, lastPop, closeRuns, closedClients>>
connVars == <<subPc, clientPc, counter, written, connLog>>
guidVars == <<factory, issued>>
codecVars == <<codec, src, stream, decoded>>
fnVars == <<input, output>>
sysVars == <<nsqd>>
restVars == <<guidVars, codecVars, fnVars, sysVars>>
extVars == <<connVars, restVars>>
vars == <<topicVars, chanVars, now, procVars, histVars, extVars>>

\* ----------------------------------------------------------------- helpers
Min(S) == CHOOSE x \in S : \A y \in S : x <= y
Max(S) == CHOOSE x \in S : \A y \in S : x >= y

RECURSIVE NextPow2From(_, _)
NextPow2From(p, n) == IF p >= n THEN p ELSE NextPow2From(2 * p, n)
\* tokio's broadcast::channel rounds its capacity up to a power of two
NextPow2(n) == NextPow2From(1, n)

\* Capacity of the sender of generation g: Topic::new's channel(mem_queue_size),
\* close's channel(1).
Cap(g) == IF g = 0 THEN NextPow2(MemQueueSize) ELSE NextPow2(1)

\* Message.is_defered / Message.get_defered.  deferred is {} for None, {d} for Some(d).
is_defered_Never(msg) == FALSE
is_defered(msg) == msg.deferred # {}
get_defered(msg) == IF msg.deferred = {} THEN 0 ELSE CHOOSE d \in msg.deferred : TRUE

Deferrals == {{}} \cup {{d} : d \in 0..(MaxDelay + 1)}
\* the deferrals of the messages published to the Topic, and the clients that subscribe
TopicDeferrals == {{}, {MaxDelay}}
TopicClients == {1, 2}
\* the client that subscribes where the serve loops run
ServeClients == {1}
\* the connections: the ids of the clients that can subscribe
ConnIds == ServeClients

\* Receivers of the sender of generation g that are alive.
Receivers(g) == {n \in ChannelNames : rx[n].alive /\ rx[n].gen = g}

Ids(s) == {s[i].id : i \in 1..Len(s)}

NoPop == [valid |-> FALSE, curr |-> 0, ret |-> <<>>, before |-> <<>>]

\* ------------------------------------------------------------------- Init
TopicInit ==
    /\ channel_map = [n \in ChannelNames |-> 0]
    /\ txGen = 0
    /\ bcLog = [g \in 0..(MaxClose + 1) |-> <<>>]
    /\ rx = [n \in ChannelNames |-> [gen |-> 0, next |-> 0, alive |-> FALSE]]
    /\ task = [n \in ChannelNames |-> "none"]

ChanInit ==
    /\ clients = [n \in ChannelNames |-> {}]
    /\ exit_flag = [n \in ChannelNames |-> FALSE]
    /\ mem = [n \in ChannelNames |-> <<>>]
    /\ memClosed = [n \in ChannelNames |-> FALSE]
    /\ inhand = [n \in ChannelNames |-> <<>>]
    /\ defered_pq = [n \in ChannelNames |-> <<>>]

ProcInit ==
    /\ pc = [p \in Procs |-> "idle"]
    /\ arg = [p \in Procs |-> 0]
    /\ snap = [p \in Procs |-> {}]
    /\ res = [p \in Procs |-> [op |-> "none", r |-> "none", inserted |-> FALSE]]
    /\ calls = 0
    /\ lock = 0

HistInit ==
    /\ pubLog = <<>>
    /\ serveRecv = [n \in ChannelNames |-> <<>>]
    /\ popLog = [n \in ChannelNames |-> <<>>]
    /\ created = [n \in ChannelNames |-> 0]
    /\ subscribed = [n \in ChannelNames |-> 0]
    /\ addResults = {}
    /\ lastPop = NoPop
    /\ closeRuns = 0
    /\ closedClients = {}

\* Counter::new (client_v2.rs:264-272).
Counter_new == [ready_count |-> 0, in_flight_count |-> 0, message_count |-> 0,
                finish_count |-> 0, requeue_count |-> 0]

NoConnLog == [lines |-> 0, errs |-> 0, eof |-> FALSE, rdy |-> 0, taken |-> <<>>,
              fin |-> {}, req |-> {}, finOther |-> {}, bad |-> FALSE, afterBad |-> 0,
              results |-> <<>>]

\* The messages a connection took and has neither FIN'd nor REQ'd.
Unacked(c) == {connLog[c].taken[i] : i \in 1..Len(connLog[c].taken)}
                  \ (connLog[c].fin \cup connLog[c].req)

ConnInit ==
    /\ subPc = [c \in ConnIds |-> "serving"]
    /\ clientPc = [c \in ConnIds |-> "serving"]
    /\ counter = [c \in ConnIds |-> Counter_new]
    /\ written = [c \in ConnIds |-> <<>>]
    /\ connLog = [c \in ConnIds |-> NoConnLog]

\* GuidFactory::new(node_id) (guid.rs:37-44).
GuidFactory_new(node_id) ==
    [node_id |-> node_id, sequence |-> 0, last_timestamp |-> 0, last_id |-> 0]

GuidInit ==
    /\ factory = GuidFactory_new(0)
    /\ issued = <<>>

\* CodecV2::new (codec_v2.rs:29-34); frame is <<>> for None, <<f>> for Some(f).
CodecV2_new == [next_index |-> 0, frame |-> <<>>]

CodecInit ==
    /\ codec = CodecV2_new
    /\ src = <<>>
    /\ stream = [kind |-> "CodecV2", bytes |-> <<>>, fed |-> 0, pending |-> FALSE]
    /\ decoded = <<>>

FnInit ==
    /\ input = <<>>
    /\ output = <<>>

\* NSQD after new(): the exit token is not cancelled and start has not been called.
\* Shutdown::new(notify) (shutdown.rs:9-14) on a receiver that has seen the
\* first pos values of the channel; pc is where a task calling recv() is and
\* returned counts the recv() calls that returned.
Shutdown_new(pos) == [is_shutdown |-> FALSE, pos |-> pos, pc |-> "idle", returned |-> 0]

\* shutdown_tx is NSQD.shutdown_tx, signals the number of values sent on it,
\* handles the Shutdown of NSQD.shutdown_rx (nsqd.rs:77-78) and its clones.
\* topic_map holds, for the one topic name published to, 0 (no entry) or the
\* number of the Topic object it maps the name to; topics counts the
\* Topic::new calls and published lists the put_msg calls made.
NSQD_new ==
    [cancelled |-> FALSE, start |-> "new", tx |-> "none", accept |-> "none", conns |-> 0,
     accepted |-> 0, topic_map |-> 0, topics |-> 0, published |-> <<>>,
     shutdown_tx |-> "alive", signals |-> 0, handles |-> <<Shutdown_new(0)>>]
SysInit == nsqd = NSQD_new

\* The state the claims about the Topic, the Channel and the connections start in.
CoreInit == TopicInit /\ ChanInit /\ now = 0 /\ ProcInit /\ HistInit /\ ConnInit /\ SysInit

ExtInit == ConnInit /\ GuidInit /\ CodecInit /\ FnInit /\ SysInit

Init == TopicInit /\ ChanInit /\ now = 0 /\ ProcInit /\ HistInit /\ ExtInit


\* ------------------------------------------------------------------ Channel
\* Channel::add_client once it holds the lock of state (channel.rs:101-117):
\* the result and the registry it leaves.
add_client_locked(reg, id) ==
    IF id \in reg
    THEN [res |-> "Ok", reg |-> reg]
    ELSE IF Cardinality(reg) >= MaxChannelSubscribers
         THEN [res |-> "MaxSubscriberReached", reg |-> reg]
         ELSE [res |-> "Ok", reg |-> reg \cup {id}]

\* -------------------------------------------------------------------- Topic
\* Topic::add_channel without its contains_key test.
AddChannel_NoContainsCheck(n, cid) ==
    LET r == add_client_locked({}, cid) IN
    /\ created' = [created EXCEPT ![n] = @ + 1]
    /\ subscribed' = [subscribed EXCEPT ![n] = @ + 1]
    /\ rx' = [rx EXCEPT ![n] = [gen |-> txGen, next |-> Len(bcLog[txGen]), alive |-> TRUE]]
    /\ task' = [task EXCEPT ![n] = "spawned"]
    /\ channel_map' = [channel_map EXCEPT ![n] = created'[n]]
    /\ clients' = [clients EXCEPT ![n] = r.reg]
    /\ addResults' = addResults \cup {<<channel_map[n] # 0, "Ok">>}
    /\ UNCHANGED <<txGen, bcLog, exit_flag, mem, memClosed, inhand, defered_pq, now,
                   procVars, extVars, pubLog, serveRecv, popLog, lastPop, closeRuns, closedClients>>

\* Topic::add_channel with the new receiver placed at the oldest value the sender
\* retains instead of at its tail.
AddChannel_SubscribeAtOldest(n, cid) ==
    IF channel_map[n] # 0
    THEN /\ addResults' = addResults \cup {<<TRUE, "Ok">>}
         /\ UNCHANGED <<topicVars, chanVars, now, procVars, extVars, pubLog, serveRecv, popLog,
                        created, subscribed, lastPop, closeRuns, closedClients>>
    ELSE /\ created' = [created EXCEPT ![n] = @ + 1]
         /\ subscribed' = [subscribed EXCEPT ![n] = @ + 1]
         /\ rx' = [rx EXCEPT ![n] = [gen |-> txGen,
                                     next |-> Max({0, Len(bcLog[txGen]) - Cap(txGen)}),
                                     alive |-> TRUE]]
         /\ task' = [task EXCEPT ![n] = "spawned"]
         /\ channel_map' = [channel_map EXCEPT ![n] = created'[n]]
         /\ clients' = [clients EXCEPT ![n] = {cid}]
         /\ addResults' = addResults \cup {<<FALSE, "Ok">>}
         /\ UNCHANGED <<txGen, bcLog, exit_flag, mem, memClosed, inhand, defered_pq, now,
                        procVars, extVars, pubLog, serveRecv, popLog, lastPop, closeRuns, closedClients>>

\* Topic::add_channel calling add_client on the Channel the map holds for the name.
AddChannel_RegistersClient(n, cid) ==
    IF channel_map[n] # 0
    THEN LET r == add_client_locked(clients[n], cid) IN
         /\ clients' = [clients EXCEPT ![n] = r.reg]
         /\ addResults' = addResults \cup {<<TRUE, r.res>>}
         /\ UNCHANGED <<topicVars, exit_flag, mem, memClosed, inhand, defered_pq, now, procVars,
                        extVars, pubLog, serveRecv, popLog, created, subscribed, lastPop,
                        closeRuns, closedClients>>
    ELSE /\ created' = [created EXCEPT ![n] = @ + 1]
         /\ subscribed' = [subscribed EXCEPT ![n] = @ + 1]
         /\ rx' = [rx EXCEPT ![n] = [gen |-> txGen, next |-> Len(bcLog[txGen]), alive |-> TRUE]]
         /\ task' = [task EXCEPT ![n] = "spawned"]
         /\ channel_map' = [channel_map EXCEPT ![n] = created'[n]]
         /\ clients' = [clients EXCEPT ![n] = {cid}]
         /\ addResults' = addResults \cup {<<FALSE, "Ok">>}
         /\ UNCHANGED <<txGen, bcLog, exit_flag, mem, memClosed, inhand, defered_pq, now,
                        procVars, extVars, pubLog, serveRecv, popLog, lastPop, closeRuns, closedClients>>

\* Topic::add_channel(name, client).  A name in the map returns Ok at once.
\* Otherwise: Channel::new, add_client on the new Channel (exit_flag false, empty
\* registry), subscribe a receiver at the sender's tail, spawn the task, insert.
AddChannel(n, cid) ==
    IF channel_map[n] # 0
    THEN /\ addResults' = addResults \cup {<<TRUE, "Ok">>}
         /\ UNCHANGED <<topicVars, chanVars, now, procVars, extVars, pubLog, serveRecv, popLog,
                        created, subscribed, lastPop, closeRuns, closedClients>>
    ELSE LET r == add_client_locked({}, cid) IN
         /\ created' = [created EXCEPT ![n] = @ + 1]
         /\ IF r.res # "Ok"
            THEN /\ addResults' = addResults \cup {<<FALSE, r.res>>}
                 /\ UNCHANGED <<topicVars, clients, subscribed>>
            ELSE /\ subscribed' = [subscribed EXCEPT ![n] = @ + 1]
                 /\ rx' = [rx EXCEPT ![n] = [gen |-> txGen, next |-> Len(bcLog[txGen]), alive |-> TRUE]]
                 /\ task' = [task EXCEPT ![n] = "spawned"]
                 /\ channel_map' = [channel_map EXCEPT ![n] = created'[n]]
                 /\ clients' = [clients EXCEPT ![n] = r.reg]
                 /\ addResults' = addResults \cup {<<FALSE, "Ok">>}
                 /\ UNCHANGED <<txGen, bcLog>>
         /\ UNCHANGED <<exit_flag, mem, memClosed, inhand, defered_pq, now, procVars, extVars,
                        pubLog, serveRecv, popLog, lastPop, closeRuns, closedClients>>

\* The task add_channel spawns: `channel.serve(rx);` builds the future of serve and
\* drops it unpolled, and with it the receiver.
TaskDropServe(n) ==
    /\ task[n] = "spawned"
    /\ task' = [task EXCEPT ![n] = "dropped"]
    /\ rx' = [rx EXCEPT ![n].alive = FALSE]
    /\ UNCHANGED <<channel_map, txGen, bcLog, chanVars, now, procVars, extVars, histVars>>

\* Topic::close: mem_msg_tx is replaced by the sender of a new channel(1), whose
\* receiver is dropped at once; the old sender is dropped, which closes its
\* channel.  Channel::close is empty.
Close ==
    /\ txGen < MaxClose
    /\ txGen' = txGen + 1
    /\ UNCHANGED <<channel_map, bcLog, rx, task, chanVars, now, procVars, extVars, histVars>>

\* broadcast::Sender::send: an error when no receiver is alive, else the value is
\* stored for every receiver.
send_result(g) == IF Receivers(g) = {} THEN "SendError" ELSE "Ok"

\* What put_msg returns for each result of send (topic.rs:74-89).
put_msg_result(sent) == IF sent = "Ok" THEN "Ok" ELSE "Ok"

\* Topic::put_msg(msg).  The k-th message published has id k and body BodyOf(k).
PutMsg(d) ==
    /\ Len(pubLog) < MaxMsgs
    /\ LET msg == [id |-> Len(pubLog) + 1, body |-> BodyOf(Len(pubLog) + 1), deferred |-> d]
           sent == send_result(txGen)
       IN /\ bcLog' = [bcLog EXCEPT ![txGen] = IF sent = "Ok" THEN Append(@, msg) ELSE @]
          /\ pubLog' = Append(pubLog, [msg |-> msg, res |-> put_msg_result(sent),
                                       regs |-> {n \in ChannelNames : channel_map[n] # 0},
                                       gen |-> txGen, stored |-> sent = "Ok"])
    /\ UNCHANGED <<channel_map, txGen, rx, task, chanVars, now, procVars, extVars,
                   serveRecv, popLog, created, subscribed, addResults, lastPop, closeRuns, closedClients>>

Next ==
    \/ \E n \in ChannelNames, cid \in TopicClients : AddChannel(n, cid)
    \/ \E n \in ChannelNames : TaskDropServe(n)
    \/ Close
    \/ \E d \in TopicDeferrals : PutMsg(d)

Spec == Init /\ [][Next]_vars


\* ------------------------------------------------------------ Channel::serve
\* The largest SystemTime: SystemTime::now().checked_add(delay) is None beyond it.
\* A deferral of MaxDelay + 1 is the one that can overflow it.
SystemTimeMax == MaxTime + MaxDelay

\* push_defered_msg with the deadline taken as the delay alone.
push_defered_msg_NoNow(pq, msg, t) ==
    [res |-> "Ok",
     pq |-> Append(pq, [deadline |-> get_defered(msg), msg |-> msg, pushedAt |-> t])]

\* Channel::push_defered_msg(msg) at time t on heap pq: the entry's key is
\* now + msg.get_defered(); only defered_pq is written.
push_defered_msg(pq, msg, t) ==
    IF t + get_defered(msg) > SystemTimeMax
    THEN [res |-> "E_INVALID", pq |-> pq]
    ELSE [res |-> "Ok",
          pq |-> Append(pq, [deadline |-> t + get_defered(msg), msg |-> msg, pushedAt |-> t])]

\* The spawned task when the future of serve is polled: serve enters its loop.
ServePoll(n) ==
    /\ task[n] = "spawned"
    /\ task' = [task EXCEPT ![n] = "recv"]
    /\ UNCHANGED <<channel_map, txGen, bcLog, rx, chanVars, now, procVars, extVars, histVars>>

\* broadcast::Receiver::recv for the receiver of channel n: Lagged when more than
\* the capacity is unread, else the next value, else Closed when the sender is
\* gone, else nothing yet.
recv_outcome(n) ==
    LET g == rx[n].gen
        tail == Len(bcLog[g])
    IN IF tail - rx[n].next > Cap(g) THEN "Lagged"
       ELSE IF rx[n].next < tail THEN "Ok"
       ELSE IF g < txGen THEN "Closed"
       ELSE "Empty"

\* serve's select! arm, topic_msg_rx.recv() (channel.rs:188-205).
ServeRecv(n) ==
    /\ task[n] = "recv"
    /\ LET out == recv_outcome(n)
           g == rx[n].gen
       IN /\ out # "Empty"
          /\ IF out = "Lagged"
             THEN /\ rx' = [rx EXCEPT ![n].next = Len(bcLog[g]) - Cap(g)]
                  /\ UNCHANGED <<task, memClosed, inhand, defered_pq, serveRecv>>
             ELSE IF out = "Closed"
             THEN /\ memClosed' = [memClosed EXCEPT ![n] = TRUE]
                  /\ task' = [task EXCEPT ![n] = "drain"]
                  /\ UNCHANGED <<rx, inhand, defered_pq, serveRecv>>
             ELSE LET msg == bcLog[g][rx[n].next + 1] IN
                  /\ rx' = [rx EXCEPT ![n].next = @ + 1]
                  /\ serveRecv' = [serveRecv EXCEPT ![n] = Append(@, msg)]
                  /\ IF is_defered(msg)
                     THEN /\ defered_pq' = [defered_pq EXCEPT ![n] = push_defered_msg(@, msg, now).pq]
                          /\ UNCHANGED <<task, inhand>>
                     ELSE /\ inhand' = [inhand EXCEPT ![n] = <<msg>>]
                          /\ task' = [task EXCEPT ![n] = "send"]
                          /\ UNCHANGED defered_pq
                  /\ UNCHANGED memClosed
    /\ UNCHANGED <<channel_map, txGen, bcLog, clients, exit_flag, mem, now, procVars, extVars,
                   pubLog, popLog, created, subscribed, addResults, lastPop, closeRuns, closedClients>>

\* serve's send as a force_send: a full ready buffer gives up its oldest message.
ServeSend_Force(n) ==
    /\ task[n] = "send"
    /\ mem' = [mem EXCEPT ![n] = IF memClosed[n] THEN @
                                 ELSE IF Len(@) < MemQueueSize THEN @ \o inhand[n]
                                 ELSE Tail(@) \o inhand[n]]
    /\ inhand' = [inhand EXCEPT ![n] = <<>>]
    /\ task' = [task EXCEPT ![n] = "recv"]
    /\ UNCHANGED <<channel_map, txGen, bcLog, rx, clients, exit_flag, memClosed, defered_pq,
                   now, procVars, extVars, histVars>>

\* self.mem_msg_tx.send(msg).await (channel.rs:195): waits while the ready buffer
\* holds mem_queue_size messages; the error of a closed buffer is ignored.
ServeSend(n) ==
    /\ task[n] = "send"
    /\ memClosed[n] \/ Len(mem[n]) < MemQueueSize
    /\ mem' = [mem EXCEPT ![n] = IF memClosed[n] THEN @ ELSE @ \o inhand[n]]
    /\ inhand' = [inhand EXCEPT ![n] = <<>>]
    /\ task' = [task EXCEPT ![n] = "recv"]
    /\ UNCHANGED <<channel_map, txGen, bcLog, rx, clients, exit_flag, memClosed, defered_pq,
                   now, procVars, extVars, histVars>>

\* After the loop: the ready buffer is closed (with the Closed arm), then
\* `while let Ok(msg) = self.mem_msg_rx.recv().await {}` (channel.rs:213-215).
ServeDrain(n) ==
    /\ task[n] = "drain"
    /\ IF mem[n] # <<>>
       THEN /\ mem' = [mem EXCEPT ![n] = Tail(@)]
            /\ popLog' = [popLog EXCEPT ![n] = Append(@, Head(mem[n]))]
            /\ UNCHANGED <<task, rx>>
       ELSE /\ task' = [task EXCEPT ![n] = "done"]
            /\ rx' = [rx EXCEPT ![n].alive = FALSE]
            /\ UNCHANGED <<mem, popLog>>
    /\ UNCHANGED <<channel_map, txGen, bcLog, clients, exit_flag, memClosed, inhand,
                   defered_pq, now, procVars, extVars, pubLog, serveRecv, created, subscribed,
                   addResults, lastPop, closeRuns, closedClients>>

\* SubscriberV2::serve's arm self.mem_msg_rx.recv() (client_v2.rs:241-244) of a
\* consumer registered in channel n: takes the head of the ready buffer, and
\* `Ok(msg) => {}` drops it.  The arm reads no counter and writes none.
SubRecv(n, cid) ==
    /\ cid \in clients[n]
    /\ subPc[cid] = "serving"
    /\ mem[n] # <<>>
    /\ mem' = [mem EXCEPT ![n] = Tail(@)]
    /\ popLog' = [popLog EXCEPT ![n] = Append(@, Head(mem[n]))]
    /\ connLog' = [connLog EXCEPT ![cid].taken = Append(@, Head(mem[n]).id)]
    /\ UNCHANGED <<topicVars, clients, exit_flag, memClosed, inhand, defered_pq, now,
                   procVars, restVars, subPc, clientPc, counter, written, pubLog, serveRecv,
                   created, subscribed, addResults, lastPop, closeRuns, closedClients>>

\* The clock advances.
Tick ==
    /\ now < MaxTime
    /\ now' = now + 1
    /\ UNCHANGED <<topicVars, chanVars, procVars, extVars, histVars>>

NextServe ==
    \/ \E n \in ChannelNames, cid \in ServeClients : AddChannel(n, cid)
    \/ \E n \in ChannelNames : ServePoll(n)
    \/ \E n \in ChannelNames : ServeRecv(n)
    \/ \E n \in ChannelNames : ServeSend(n)
    \/ \E n \in ChannelNames : ServeDrain(n)
    \/ \E n \in ChannelNames, cid \in ServeClients : SubRecv(n, cid)
    \/ Close
    \/ \E d \in TopicDeferrals : PutMsg(d)
    \/ Tick

SpecServe == Init /\ [][NextServe]_vars

\* SpecServe with the scheduling of the runtime: a task that can take a step
\* takes it (the serve loops, the consumers' recv), and the clock advances.  The
\* calls of add_channel, put_msg and close are the callers' and need not happen.
SpecServeLive ==
    /\ SpecServe
    /\ \A n \in ChannelNames :
          /\ WF_vars(ServePoll(n))
          /\ WF_vars(ServeRecv(n))
          /\ WF_vars(ServeSend(n))
          /\ WF_vars(ServeDrain(n))
          /\ \A cid \in ServeClients : WF_vars(SubRecv(n, cid))
    /\ WF_vars(Tick)

\* SpecServe with the serve loops scheduled and the consumers free to take
\* from the ready buffer or not: SubscriberV2::serve is spawned by nothing, and
\* a consumer that runs may be slow.
SpecServeStalled ==
    /\ SpecServe
    /\ \A n \in ChannelNames :
          /\ WF_vars(ServePoll(n))
          /\ WF_vars(ServeRecv(n))
          /\ WF_vars(ServeSend(n))
          /\ WF_vars(ServeDrain(n))
    /\ WF_vars(Tick)

\* State.defered_msgs of channel n, as a set of ids: made empty by Channel::new
\* and written by nothing.
defered_msgs(n) == {}

\* ------------------------------------------- Channel::add_client / exit
\* The Channel the concurrent callers share.
Chan == "a"

NoResult == [op |-> "none", r |-> "none", inserted |-> FALSE]

\* A call returns: its result, and whether it wrote the registry.
Return(p, op, r, inserted) ==
    /\ res' = [res EXCEPT ![p] = [op |-> op, r |-> r, inserted |-> inserted]]
    /\ pc' = [pc EXCEPT ![p] = "idle"]

\* add_client(c), c.id() = id: `if self.exiting()` (channel.rs:97-99), before the
\* lock is taken.
AcExiting(p, id) ==
    /\ pc[p] = "idle"
    /\ calls < MaxCalls
    /\ calls' = calls + 1
    /\ arg' = [arg EXCEPT ![p] = id]
    /\ snap' = [snap EXCEPT ![p] = {}]
    /\ IF exit_flag[Chan]
       THEN Return(p, "add_client", "Exiting", FALSE)
       ELSE /\ pc' = [pc EXCEPT ![p] = "ac_lock"]
            /\ res' = [res EXCEPT ![p] = NoResult]
    /\ UNCHANGED <<topicVars, extVars, chanVars, now, lock, histVars>>

\* self.state.lock() taken whether or not another caller holds it.
AcLock_NoMutex(p) ==
    /\ pc[p] = "ac_lock"
    /\ lock' = p
    /\ snap' = [snap EXCEPT ![p] = clients[Chan]]
    /\ pc' = [pc EXCEPT ![p] = "ac_contains"]
    /\ UNCHANGED <<topicVars, extVars, chanVars, now, arg, res, calls, histVars>>

\* `let state = self.state.lock().unwrap()` (channel.rs:101).
AcLock(p) ==
    /\ pc[p] = "ac_lock"
    /\ lock = 0
    /\ lock' = p
    /\ snap' = [snap EXCEPT ![p] = clients[Chan]]
    /\ pc' = [pc EXCEPT ![p] = "ac_contains"]
    /\ UNCHANGED <<topicVars, extVars, chanVars, now, arg, res, calls, histVars>>

\* add_client without the test for an id already registered.
AcContains_Skip(p) ==
    /\ pc[p] = "ac_contains"
    /\ pc' = [pc EXCEPT ![p] = "ac_max"]
    /\ UNCHANGED <<topicVars, extVars, chanVars, now, arg, snap, res, calls, lock, histVars>>

\* `if state.clients.contains_key(&id) { return Ok(()) }` (channel.rs:103-106);
\* returning drops the guard.
AcContains(p) ==
    /\ pc[p] = "ac_contains"
    /\ IF arg[p] \in clients[Chan]
       THEN /\ Return(p, "add_client", "Ok", FALSE)
            /\ lock' = 0
       ELSE /\ pc' = [pc EXCEPT ![p] = "ac_max"]
            /\ UNCHANGED <<res, lock>>
    /\ UNCHANGED <<topicVars, extVars, chanVars, now, arg, snap, calls, histVars>>

\* `if state.clients.len() >= max { return Err(MaxSubscriberReached(max)) }`
\* (channel.rs:108-111).
AcMax(p) ==
    /\ pc[p] = "ac_max"
    /\ IF Cardinality(clients[Chan]) >= MaxChannelSubscribers
       THEN /\ Return(p, "add_client", "MaxSubscriberReached", FALSE)
            /\ lock' = 0
       ELSE /\ pc' = [pc EXCEPT ![p] = "ac_insert"]
            /\ UNCHANGED <<res, lock>>
    /\ UNCHANGED <<topicVars, extVars, chanVars, now, arg, snap, calls, histVars>>

\* `state.clients.insert(id, ...); Ok(())` (channel.rs:113-117).
AcInsert(p) ==
    /\ pc[p] = "ac_insert"
    /\ clients' = [clients EXCEPT ![Chan] = @ \cup {arg[p]}]
    /\ Return(p, "add_client", "Ok", TRUE)
    /\ lock' = 0
    /\ UNCHANGED <<topicVars, extVars, exit_flag, mem, memClosed, inhand, defered_pq, now, arg,
                   snap, calls, histVars>>

\* exit with the latch written without comparing it.
ExCas_NoCompare(p) ==
    /\ pc[p] = "idle"
    /\ calls < MaxCalls
    /\ calls' = calls + 1
    /\ arg' = [arg EXCEPT ![p] = 0]
    /\ snap' = [snap EXCEPT ![p] = {}]
    /\ exit_flag' = [exit_flag EXCEPT ![Chan] = TRUE]
    /\ pc' = [pc EXCEPT ![p] = "ex_close"]
    /\ res' = [res EXCEPT ![p] = NoResult]
    /\ UNCHANGED <<topicVars, extVars, clients, mem, memClosed, inhand, defered_pq, now,
                   lock, histVars>>

\* exit(deleted): `exit_flag.compare_exchange(false, true, ..)` (channel.rs:125-130);
\* deleted only selects the line logged.
ExCas(p) ==
    /\ pc[p] = "idle"
    /\ calls < MaxCalls
    /\ calls' = calls + 1
    /\ arg' = [arg EXCEPT ![p] = 0]
    /\ snap' = [snap EXCEPT ![p] = {}]
    /\ IF exit_flag[Chan]
       THEN /\ Return(p, "exit", "Exiting", FALSE)
            /\ UNCHANGED exit_flag
       ELSE /\ exit_flag' = [exit_flag EXCEPT ![Chan] = TRUE]
            /\ pc' = [pc EXCEPT ![p] = "ex_close"]
            /\ res' = [res EXCEPT ![p] = NoResult]
    /\ UNCHANGED <<topicVars, extVars, clients, mem, memClosed, inhand, defered_pq, now,
                   lock, histVars>>

\* `for mut c in self.state.lock().unwrap().clients.iter_mut() { c.close(); }`
\* (channel.rs:141-143), then Ok(()): the guard is held for the whole loop.
\* SubscriberV2::close is empty.
ExClose(p) ==
    /\ pc[p] = "ex_close"
    /\ lock = 0
    /\ closedClients' = closedClients \cup clients[Chan]
    /\ closeRuns' = closeRuns + 1
    /\ Return(p, "exit", "Ok", FALSE)
    /\ UNCHANGED <<topicVars, extVars, chanVars, now, arg, snap, calls, lock, pubLog, serveRecv,
                   popLog, created, subscribed, addResults, lastPop>>

NextClients ==
    \/ \E p \in Procs, id \in ClientIds : AcExiting(p, id)
    \/ \E p \in Procs : AcLock(p)
    \/ \E p \in Procs : AcContains(p)
    \/ \E p \in Procs : AcMax(p)
    \/ \E p \in Procs : AcInsert(p)
    \/ \E p \in Procs : ExCas(p)
    \/ \E p \in Procs : ExClose(p)

SpecClients == Init /\ [][NextClients]_vars

\* ------------------------------------- push_defered_msg / pop_defered_msg
MinDeadline(pq) == Min({pq[i].deadline : i \in 1..Len(pq)})

RemoveAt(pq, i) == SubSeq(pq, 1, i - 1) \o SubSeq(pq, i + 1, Len(pq))

\* pop_defered_msg with the deadline compared by < instead of <=.
pop_defered_msg_Strict(pq, curr) ==
    IF pq = <<>> \/ ~(MinDeadline(pq) < curr)
    THEN {[ret |-> <<>>, pq |-> pq]}
    ELSE {[ret |-> <<pq[i]>>, pq |-> RemoveAt(pq, i)] :
              i \in {j \in 1..Len(pq) : pq[j].deadline = MinDeadline(pq)}}

\* Channel::pop_defered_msg(curr) on heap pq (channel.rs:161-167): the outcomes
\* [ret, pq].  peek() is an entry greatest in MsgItem's order, which reverses the
\* order of the deadlines (message.rs:140-156); among equal deadlines the heap
\* may hold any at its top.
pop_defered_msg(pq, curr) ==
    IF pq = <<>> \/ ~(MinDeadline(pq) <= curr)
    THEN {[ret |-> <<>>, pq |-> pq]}
    ELSE {[ret |-> <<pq[i]>>, pq |-> RemoveAt(pq, i)] :
              i \in {j \in 1..Len(pq) : pq[j].deadline = MinDeadline(pq)}}

\* A caller pushes message id with deferral d to the Channel's heap.
PushDeferred(id, d) ==
    /\ Len(defered_pq[Chan]) < MaxHeap
    /\ LET msg == [id |-> id, body |-> BodyOf(id), deferred |-> d] IN
       defered_pq' = [defered_pq EXCEPT ![Chan] = push_defered_msg(@, msg, now).pq]
    /\ lastPop' = NoPop
    /\ UNCHANGED <<topicVars, clients, exit_flag, mem, memClosed, inhand, now, procVars, extVars,
                   pubLog, serveRecv, popLog, created, subscribed, addResults, closeRuns,
                   closedClients>>

\* A caller pops with the time curr.
PopDeferred(curr) ==
    /\ \E o \in pop_defered_msg(defered_pq[Chan], curr) :
          /\ defered_pq' = [defered_pq EXCEPT ![Chan] = o.pq]
          /\ lastPop' = [valid |-> TRUE, curr |-> curr, ret |-> o.ret,
                         before |-> defered_pq[Chan]]
    /\ UNCHANGED <<topicVars, clients, exit_flag, mem, memClosed, inhand, now, procVars, extVars,
                   pubLog, serveRecv, popLog, created, subscribed, addResults, closeRuns,
                   closedClients>>

\* The clock advances between the calls.
TickDeferred ==
    /\ now < MaxTime
    /\ now' = now + 1
    /\ lastPop' = NoPop
    /\ UNCHANGED <<topicVars, chanVars, procVars, extVars, pubLog, serveRecv, popLog, created,
                   subscribed, addResults, closeRuns, closedClients>>

NextDeferred ==
    \/ \E id \in 1..MaxHeap, d \in Deferrals : PushDeferred(id, d)
    \/ \E curr \in 0..SystemTimeMax : PopDeferred(curr)
    \/ TickDeferred

SpecDeferred == Init /\ [][NextDeferred]_vars

\* ------------------------------------------------------------ bytes, names
\* A byte is a number of 0..255; a buffer is a sequence of bytes.
LF == 10
SP == 32
PLUS == 43
Digits == 48..57

\* message.rs:15
MSG_ID_LENGTH == 16

b_CLS == <<67, 76, 83>>
b_FIN == <<70, 73, 78>>
b_NOP == <<78, 79, 80>>
b_RDY == <<82, 68, 89>>
b_REQ == <<82, 69, 81>>
b_TOUCH == <<84, 79, 85, 67, 72>>
b_PUB == <<80, 85, 66>>
b_DPUB == <<68, 80, 85, 66>>
b_MPUB == <<77, 80, 85, 66>>
b_SUB == <<83, 85, 66>>
\* "#ephemeral"
b_ephemeral == <<35, 101, 112, 104, 101, 109, 101, 114, 97, 108>>

\* slice.iter().position(|b| *b == x), counted from 1; 0 when there is none.
Position(buf, x) ==
    IF \E i \in 1..Len(buf) : buf[i] = x
    THEN Min({i \in 1..Len(buf) : buf[i] = x})
    ELSE 0

\* buf.drain(..k): what is left of buf.
Drain(buf, k) == SubSeq(buf, k + 1, Len(buf))

\* The first item of buf.splitn(k, |b| b == x), k >= 2: the bytes before the
\* first x; and what follows that x (the rest of the input, to be split again).
SplitHead(buf, x) == IF Position(buf, x) = 0 THEN buf ELSE SubSeq(buf, 1, Position(buf, x) - 1)
SplitRest(buf, x) == Drain(buf, Position(buf, x))
SplitMore(buf, x) == Position(buf, x) # 0

\* The bytes [.a-zA-Z0-9_-] of NAME_REGEX.
NameByte(b) == b = 46 \/ b \in 97..122 \/ b \in 65..90 \/ b \in 48..57 \/ b = 95 \/ b = 45

\* NAME_REGEX.is_match(name), ^[.a-zA-Z0-9_-]+(#ephemeral)?$, run as the automaton
\* of the expression: state 0 before the first byte, 1 inside the class, 1 + k
\* after k bytes of the suffix.  NameStep(b) is the moves on byte b, as pairs
\* <<from, to>>; NameRun(name, lo, hi) the moves on name[lo..hi], one half of the
\* bytes after the other.
NameStep(b) ==
    {<<q, 1>> : q \in {q \in {0, 1} : NameByte(b)}}
    \cup {<<q, q + 1>> : q \in {q \in 1..Len(b_ephemeral) : b = b_ephemeral[q]}}

\* The moves of first and then the moves of then.
NameThen(first, then) ==
    {<<pq[1][1], pq[2][2]>> : pq \in {pq \in first \X then : pq[1][2] = pq[2][1]}}

RECURSIVE NameRun(_, _, _)
NameRun(name, lo, hi) ==
    IF lo = hi THEN NameStep(name[lo])
    ELSE NameThen(NameRun(name, lo, (lo + hi) \div 2),
                  NameRun(name, (lo + hi) \div 2 + 1, hi))

NAME_REGEX_is_match(name) ==
    /\ name # <<>>
    /\ \E p \in NameRun(name, 1, Len(name)) : p[1] = 0 /\ p[2] \in {1, 1 + Len(b_ephemeral)}

\* check_name (command.rs:293-301) and try_to_string_name (codec_v2.rs:130-141):
\* `2..=64 if NAME_REGEX.is_match(name)`.
check_name_NoLength(name) == NAME_REGEX_is_match(name)
check_name(name) == Len(name) \in 2..64 /\ NAME_REGEX_is_match(name)
try_to_string_name(name) == Len(name) \in 2..64 /\ NAME_REGEX_is_match(name)

\* num_str.parse::<u64>(): an optional '+', then one digit or more, of a value
\* a u64 holds (U64Width bits here); PosOverflow is an Err as the others are.
RECURSIVE DigitsValue(_)
DigitsValue(ds) ==
    IF ds = <<>> THEN 0 ELSE 10 * DigitsValue(SubSeq(ds, 1, Len(ds) - 1)) + (ds[Len(ds)] - 48)

parse_u64(buf) ==
    LET ds == IF buf # <<>> /\ buf[1] = PLUS THEN Tail(buf) ELSE buf IN
    IF /\ ds # <<>>
       /\ \A i \in 1..Len(ds) : ds[i] \in Digits
       /\ DigitsValue(ds) < 2 ^ U64Width
    THEN [ok |-> TRUE, n |-> DigitsValue(ds)]
    ELSE [ok |-> FALSE, n |-> 0]

\* `n as i64` of a u64: the same bits, read as two's complement.
as_i64(n) == IF n >= 2 ^ (U64Width - 1) THEN n - 2 ^ U64Width ELSE n

\* ------------------------------------------------- command.rs: FrameSub::parse
ParseErr(code) == [ok |-> FALSE, err |-> code, t |-> "", id |-> <<>>, n |-> 0]
ParseOk(t, id, n) == [ok |-> TRUE, err |-> "", t |-> t, id |-> id, n |-> n]

\* command.rs:304-317
read_timeout(buf) ==
    IF parse_u64(buf).ok THEN [ok |-> TRUE, n |-> parse_u64(buf).n] ELSE [ok |-> FALSE, n |-> 0]

\* command.rs:156-166
parse_touch(buf) ==
    IF Len(buf) # MSG_ID_LENGTH THEN ParseErr("E_INVALID")
    ELSE ParseOk("TOUCH", SubSeq(buf, 1, MSG_ID_LENGTH), 0)

\* command.rs:168-182
parse_rdy(buf) ==
    IF parse_u64(buf).ok THEN ParseOk("RDY", <<>>, parse_u64(buf).n) ELSE ParseErr("E_INVALID")

\* command.rs:184-194
parse_fin(buf) ==
    IF Len(buf) # 16 THEN ParseErr("E_INVALID")
    ELSE ParseOk("FIN", SubSeq(buf, 1, MSG_ID_LENGTH), 0)

\* command.rs:196-211
parse_req(buf) ==
    IF Len(buf) < MSG_ID_LENGTH THEN ParseErr("E_INVALID")
    ELSE LET t == read_timeout(Drain(buf, MSG_ID_LENGTH)) IN
         IF t.ok THEN ParseOk("REQ", SubSeq(buf, 1, MSG_ID_LENGTH), t.n)
         ELSE ParseErr("E_INVALID")

\* FrameSub::parse (command.rs:107-153) on buf, the bytes read_until(src, b'\n')
\* returned: a line with its '\n', or what was left before the end of the stream.
\* `buf.trim_ascii_end();` returns the trimmed slice, which is dropped: buf
\* keeps its '\n'.  The command is the first item of buf.splitn(2, ' '), and
\* buf.drain(..k) removes the command's k bytes, not the space after them.
FrameSub_parse(buf) ==
    LET cmd == SplitHead(buf, SP) IN
    IF cmd = b_CLS THEN ParseOk("CLS", <<>>, 0)
    ELSE IF cmd = b_FIN THEN parse_fin(Drain(buf, 3))
    ELSE IF cmd = b_NOP THEN ParseOk("NOP", <<>>, 0)
    ELSE IF cmd = b_REQ THEN parse_req(Drain(buf, 3))
    ELSE IF cmd = b_RDY THEN parse_rdy(Drain(buf, 3))
    ELSE IF cmd = b_TOUCH THEN parse_touch(Drain(buf, 5))
    ELSE ParseErr("E_BAD_CMD")

\* ---------------------------------------------------- command.rs: Frame::parse
FrameErr(code) == [ok |-> FALSE, err |-> code, t |-> "", topic |-> <<>>, channel |-> <<>>,
                   n |-> 0, bodies |-> <<>>]
FrameOk(t, topic, channel, n, bodies) ==
    [ok |-> TRUE, err |-> "", t |-> t, topic |-> topic, channel |-> channel, n |-> n,
     bodies |-> bodies]

\* u32::from_be_bytes / read_u32 of the first four bytes of b.
U32(b) == ((b[1] * 256 + b[2]) * 256 + b[3]) * 256 + b[4]

\* read_msg_body(src) (command.rs:325-347) on rest, the bytes of the stream
\* after the line: the result and the bytes left.  read_u32 fails when the
\* stream ends before four bytes.  msg_body is BytesMut::with_capacity(size),
\* whose length is 0, so read_exact reads no byte and the body is empty.
read_msg_body(rest) ==
    IF Len(rest) < 4 THEN [ok |-> FALSE, body |-> <<>>, rest |-> rest]
    ELSE [ok |-> TRUE, body |-> <<>>, rest |-> Drain(rest, 4)]

\* command.rs:274-284
parse_pub(rest, topic_name) ==
    IF ~check_name(topic_name) THEN FrameErr("E_BAD_TOPIC")
    ELSE IF ~read_msg_body(rest).ok THEN FrameErr("E_BAD_MESSAGE")
    ELSE FrameOk("PUB", topic_name, <<>>, 0, <<read_msg_body(rest).body>>)

\* command.rs:260-272
parse_sub(buf) ==
    LET topic_name == SplitHead(buf, SP)
        channel_name == IF SplitMore(buf, SP) THEN SplitRest(buf, SP) ELSE <<>>
    IN IF ~check_name(topic_name) THEN FrameErr("E_BAD_TOPIC")
       ELSE IF ~check_name(channel_name) THEN FrameErr("E_BAD_TOPIC")
       ELSE FrameOk("SUB", topic_name, channel_name, 0, <<>>)

\* command.rs:213-229.  buf.drain(..topic_name.len() + 1) panics when buf ends
\* with the topic name.
parse_dpub(rest, buf) ==
    LET topic_name == SplitHead(buf, SP) IN
    IF ~check_name(topic_name) THEN FrameErr("E_BAD_TOPIC")
    ELSE IF Len(topic_name) + 1 > Len(buf) THEN FrameErr("panic")
    ELSE IF ~read_timeout(Drain(buf, Len(topic_name) + 1)).ok THEN FrameErr("E_INVALID")
    ELSE IF ~read_msg_body(rest).ok THEN FrameErr("E_BAD_MESSAGE")
    ELSE FrameOk("DPUB", topic_name, <<>>, read_timeout(Drain(buf, Len(topic_name) + 1)).n,
                 <<read_msg_body(rest).body>>)

\* The loop of parse_mpub: msg_num bodies read one after the other.
RECURSIVE read_bodies(_, _)
read_bodies(rest, k) ==
    IF k = 0 THEN [ok |-> TRUE, bodies |-> <<>>, rest |-> rest]
    ELSE LET r == read_msg_body(rest) IN
         IF ~r.ok THEN [ok |-> FALSE, bodies |-> <<>>, rest |-> r.rest]
         ELSE LET more == read_bodies(r.rest, k - 1) IN
              [ok |-> more.ok, bodies |-> <<r.body>> \o more.bodies, rest |-> more.rest]

\* command.rs:231-258
parse_mpub(rest, topic_name) ==
    IF ~check_name(topic_name) THEN FrameErr("E_BAD_TOPIC")
    ELSE IF Len(rest) < 4 THEN FrameErr("E_BAD_BODY")
    ELSE IF Len(rest) < 8 \/ U32(Drain(rest, 4)) = 0 THEN FrameErr("E_BAD_BODY")
    ELSE LET r == read_bodies(Drain(rest, 8), U32(Drain(rest, 4))) IN
         IF ~r.ok THEN FrameErr("E_BAD_MESSAGE")
         ELSE FrameOk("MPUB", topic_name, <<>>, 0, r.bodies)

\* Frame::parse (command.rs:54-102) on buf, the bytes read_until(src, b'\n')
\* returned, and rest, the bytes of the stream after them.  As in
\* FrameSub::parse, buf keeps its '\n' and the drained buf starts at the space.
Frame_parse(buf, rest) ==
    LET cmd == SplitHead(buf, SP) IN
    IF cmd = b_DPUB THEN parse_dpub(rest, Drain(buf, 4))
    ELSE IF cmd = b_MPUB THEN parse_mpub(rest, Drain(buf, 4))
    ELSE IF cmd = b_NOP THEN FrameOk("NOP", <<>>, <<>>, 0, <<>>)
    ELSE IF cmd = b_PUB THEN parse_pub(rest, Drain(buf, 3))
    ELSE IF cmd = b_SUB THEN parse_sub(Drain(buf, 3))
    ELSE FrameErr("E_BAD_CMD")

\* ------------------------------------- SubscriberV2::serve, ClientV2::serve
\* The wire id of message k: sixteen ASCII bytes.
IdBytes(k) == [i \in 1..MSG_ID_LENGTH |-> IF i = MSG_ID_LENGTH THEN 48 + k ELSE 48]

\* What a subscribed connection sends: a command, the message it names, its
\* count, and whether the line ends with '\n' or the stream ends after it.
SubCmds ==
    [kind : {"CLS", "NOP", "EOF"}, k : {0}, lf : BOOLEAN]
        \cup [kind : {"FIN", "TOUCH", "REQ"}, k : 1..MaxMsgs, lf : BOOLEAN]
        \cup [kind : {"RDY"}, k : 1..MaxRdy, lf : BOOLEAN]

\* The bytes read_until returns for it.
SubLine(cmd) ==
    LET end == IF cmd.lf THEN <<LF>> ELSE <<>> IN
    CASE cmd.kind = "CLS" -> b_CLS \o end
      [] cmd.kind = "NOP" -> b_NOP \o end
      [] cmd.kind = "EOF" -> end
      [] cmd.kind = "FIN" -> b_FIN \o <<SP>> \o IdBytes(cmd.k) \o end
      [] cmd.kind = "TOUCH" -> b_TOUCH \o <<SP>> \o IdBytes(cmd.k) \o end
      [] cmd.kind = "REQ" -> b_REQ \o <<SP>> \o IdBytes(cmd.k) \o <<SP, 48>> \o end
      [] cmd.kind = "RDY" -> b_RDY \o <<SP, 48 + cmd.k>> \o end

\* SubscriberV2::serve's arm FrameSub::parse (client_v2.rs:230-240): every frame
\* parsed reaches todo!(), which panics the task; `Err(_) => {}` drops the error
\* and the loop goes on.  Once the stream has ended read_until returns no byte.
SubParse(c, cmd) ==
    /\ subPc[c] = "serving"
    /\ connLog[c].lines < MaxLines
    /\ connLog[c].eof => cmd.kind = "EOF" /\ ~cmd.lf
    /\ LET r == FrameSub_parse(SubLine(cmd)) IN
       /\ subPc' = [subPc EXCEPT ![c] = IF r.ok THEN "panicked" ELSE @]
       /\ connLog' = [connLog EXCEPT
              ![c].lines = @ + 1,
              ![c].errs = IF r.ok THEN @ ELSE @ + 1,
              ![c].eof = @ \/ ~cmd.lf,
              ![c].rdy = IF cmd.kind = "RDY" THEN @ + cmd.k ELSE @,
              ![c].fin = IF cmd.kind = "FIN" /\ cmd.k \in Unacked(c) THEN @ \cup {cmd.k} ELSE @,
              ![c].req = IF cmd.kind = "REQ" /\ cmd.k \in Unacked(c) THEN @ \cup {cmd.k} ELSE @,
              ![c].finOther = IF cmd.kind = "FIN" /\ cmd.k \notin Unacked(c)
                              THEN @ \cup {cmd.k} ELSE @]
    /\ UNCHANGED <<topicVars, chanVars, now, procVars, histVars, restVars, clientPc, counter, written>>

\* serve's arm ticker.tick() (client_v2.rs:245-249, 165-169): the heartbeat bytes
\* are written and flushed.
SubHeartbeat(c) ==
    /\ subPc[c] = "serving"
    /\ Len(written[c]) < MaxBeats
    /\ written' = [written EXCEPT ![c] = Append(@, "_heartbeat_")]
    /\ UNCHANGED <<topicVars, chanVars, now, procVars, histVars, restVars, subPc, clientPc, counter, connLog>>

\* What a connection that has not subscribed sends: the line and the bytes
\* after it.  "PUBX topic" is no command.
b_topic == <<116, 111, 112, 105, 99>>
ClientCmds ==
    [kind : {"NOP", "PUB", "SUB", "DPUB", "MPUB", "PUBX", "EOF"}, lf : BOOLEAN]

ClientLine(cmd) ==
    LET end == IF cmd.lf THEN <<LF>> ELSE <<>> IN
    CASE cmd.kind = "NOP" -> b_NOP \o end
      [] cmd.kind = "EOF" -> end
      [] cmd.kind = "PUB" -> b_PUB \o <<SP>> \o b_topic \o end
      [] cmd.kind = "MPUB" -> b_MPUB \o <<SP>> \o b_topic \o end
      [] cmd.kind = "DPUB" -> b_DPUB \o <<SP>> \o b_topic \o <<SP, 49>> \o end
      [] cmd.kind = "SUB" -> b_SUB \o <<SP>> \o b_topic \o <<SP>> \o b_topic \o end
      [] cmd.kind = "PUBX" -> <<80, 85, 66, 88, SP>> \o b_topic \o end

\* The bytes that follow the line: one body of one byte, framed for the command.
ClientRest(cmd) ==
    IF ~cmd.lf THEN <<>>
    ELSE IF cmd.kind \in {"PUB", "DPUB"} THEN <<0, 0, 0, 1, 120>>
    ELSE IF cmd.kind = "MPUB" THEN <<0, 0, 0, 5, 0, 0, 0, 1, 0, 0, 0, 1, 120>>
    ELSE <<>>

\* ClientV2::serve's arm Frame::parse (client_v2.rs:152-164): every frame parsed
\* reaches todo!(); `Err(_) => {}` drops the error: nothing is written to the
\* socket and the loop goes on.
ClientParse(c, cmd) ==
    /\ clientPc[c] = "serving"
    /\ connLog[c].lines < MaxLines
    /\ connLog[c].eof => cmd.kind = "EOF" /\ ~cmd.lf
    /\ LET r == Frame_parse(ClientLine(cmd), ClientRest(cmd)) IN
       /\ clientPc' = [clientPc EXCEPT ![c] = IF r.ok \/ r.err = "panic" THEN "panicked" ELSE @]
       /\ connLog' = [connLog EXCEPT
              ![c].lines = @ + 1,
              ![c].errs = IF r.ok THEN @ ELSE @ + 1,
              ![c].eof = @ \/ ~cmd.lf,
              ![c].bad = @ \/ cmd.kind = "PUBX",
              ![c].afterBad = IF connLog[c].bad THEN @ + 1 ELSE @,
              ![c].results = Append(@, [kind |-> cmd.kind, lf |-> cmd.lf,
                                        res |-> IF r.ok THEN r.t ELSE r.err])]
    /\ UNCHANGED <<topicVars, chanVars, now, procVars, histVars, restVars, subPc, counter, written>>

ClientHeartbeat(c) ==
    /\ clientPc[c] = "serving"
    /\ Len(written[c]) < MaxBeats
    /\ written' = [written EXCEPT ![c] = Append(@, "_heartbeat_")]
    /\ UNCHANGED <<topicVars, chanVars, now, procVars, histVars, restVars, subPc, clientPc, counter, connLog>>

\* A connection before it subscribes: ClientV2::serve alone.
NextClient ==
    \/ \E c \in ConnIds, cmd \in ClientCmds : ClientParse(c, cmd)
    \/ \E c \in ConnIds : ClientHeartbeat(c)

SpecClient == Init /\ [][NextClient]_vars

\* A subscribed connection on channel Chan, whose serve loop runs, and the
\* Topic publishing to it.
NextSub ==
    \/ \E c \in ConnIds : AddChannel(Chan, c)
    \/ ServePoll(Chan)
    \/ ServeRecv(Chan)
    \/ ServeSend(Chan)
    \/ PutMsg({})
    \/ \E c \in ConnIds : SubRecv(Chan, c)
    \/ \E c \in ConnIds, cmd \in SubCmds : SubParse(c, cmd)
    \/ \E c \in ConnIds : SubHeartbeat(c)

SpecSub == Init /\ [][NextSub]_vars

\* ------------------------------------------------------------- GuidFactory
RECURSIVE Pow2(_)
Pow2(k) == IF k = 0 THEN 1 ELSE 2 * Pow2(k - 1)

\* A value as the i64 of GuidWidth bits holds it (two's complement).
WrapGuid(x) ==
    LET u == x % Pow2(GuidWidth) IN
    IF u >= Pow2(GuidWidth - 1) THEN u - Pow2(GuidWidth) ELSE u

\* x << k on that i64: the bits shifted out are lost.
Shl(x, k) == WrapGuid(x * Pow2(k))

RECURSIVE BitOrU(_, _)
BitOrU(a, b) ==
    IF a = 0 THEN b
    ELSE IF b = 0 THEN a
    ELSE (IF a % 2 = 1 \/ b % 2 = 1 THEN 1 ELSE 0) + 2 * BitOrU(a \div 2, b \div 2)

RECURSIVE BitAndU(_, _)
BitAndU(a, b) ==
    IF a = 0 \/ b = 0 THEN 0
    ELSE (IF a % 2 = 1 /\ b % 2 = 1 THEN 1 ELSE 0) + 2 * BitAndU(a \div 2, b \div 2)

\* x | y and x & y on that i64.
BitOr(x, y) == WrapGuid(BitOrU(x % Pow2(GuidWidth), y % Pow2(GuidWidth)))
BitAnd(x, y) == WrapGuid(BitAndU(x % Pow2(GuidWidth), y % Pow2(GuidWidth)))

\* guid.rs:10-12
NODE_ID_SHIFT == SEQUENCE_BITS
TIMESTAMP_SHIFT == SEQUENCE_BITS + NODE_ID_BITS
SEQUENCE_MASK == Pow2(SEQUENCE_BITS) - 1

\* new_guid without its test `id <= self.last_id`.
new_guid_NoIdCheck(f, ts) ==
    IF ts < f.last_timestamp
    THEN [f |-> f, res |-> "TimeBackwards", id |-> 0]
    ELSE LET sequence == IF f.last_timestamp = ts
                         THEN BitAnd(f.sequence + 1, SEQUENCE_MASK)
                         ELSE 0
         IN IF f.last_timestamp = ts /\ sequence = 0
            THEN [f |-> [f EXCEPT !.sequence = 0], res |-> "SequenceExpired", id |-> 0]
            ELSE LET id == BitOr(BitOr(Shl(ts - TWEPOCH, TIMESTAMP_SHIFT),
                                       Shl(f.node_id, NODE_ID_SHIFT)), sequence)
                 IN [f |-> [f EXCEPT !.sequence = sequence, !.last_timestamp = ts,
                                     !.last_id = id],
                     res |-> "Ok", id |-> id]

\* new_guid with its last test written `id < self.last_id`.
new_guid_StrictId(f, ts) ==
    IF ts < f.last_timestamp
    THEN [f |-> f, res |-> "TimeBackwards", id |-> 0]
    ELSE LET sequence == IF f.last_timestamp = ts
                         THEN BitAnd(f.sequence + 1, SEQUENCE_MASK)
                         ELSE 0
         IN IF f.last_timestamp = ts /\ sequence = 0
            THEN [f |-> [f EXCEPT !.sequence = 0], res |-> "SequenceExpired", id |-> 0]
            ELSE LET id == BitOr(BitOr(Shl(ts - TWEPOCH, TIMESTAMP_SHIFT),
                                       Shl(f.node_id, NODE_ID_SHIFT)), sequence)
                 IN IF id < f.last_id
                    THEN [f |-> [f EXCEPT !.sequence = sequence, !.last_timestamp = ts],
                          res |-> "IDBackwards", id |-> 0]
                    ELSE [f |-> [f EXCEPT !.sequence = sequence, !.last_timestamp = ts,
                                          !.last_id = id],
                          res |-> "Ok", id |-> id]

\* GuidFactory::new_guid (guid.rs:46-78) on factory f when the clock reads ts:
\* the factory it leaves, the result, and the id of an Ok.  sequence is written
\* before SequenceExpired is returned, sequence and last_timestamp before
\* IDBackwards is.
new_guid(f, ts) ==
    IF ts < f.last_timestamp
    THEN [f |-> f, res |-> "TimeBackwards", id |-> 0]
    ELSE LET sequence == IF f.last_timestamp = ts
                         THEN BitAnd(f.sequence + 1, SEQUENCE_MASK)
                         ELSE 0
         IN IF f.last_timestamp = ts /\ sequence = 0
            THEN [f |-> [f EXCEPT !.sequence = 0], res |-> "SequenceExpired", id |-> 0]
            ELSE LET id == BitOr(BitOr(Shl(ts - TWEPOCH, TIMESTAMP_SHIFT),
                                       Shl(f.node_id, NODE_ID_SHIFT)), sequence)
                 IN IF id <= f.last_id
                    THEN [f |-> [f EXCEPT !.sequence = sequence, !.last_timestamp = ts],
                          res |-> "IDBackwards", id |-> 0]
                    ELSE [f |-> [f EXCEPT !.sequence = sequence, !.last_timestamp = ts,
                                          !.last_id = id],
                          res |-> "Ok", id |-> id]

\* NewGuid with the factory recording the clock's reading before it tests it.
NewGuid_StampsClock(ts) ==
    /\ Len(issued) < MaxGuidCalls
    /\ LET r == new_guid(factory, ts)
           g == [r.f EXCEPT !.last_timestamp = ts]
       IN /\ factory' = g
          /\ issued' = Append(issued, [ts |-> ts, res |-> r.res, id |-> r.id, f |-> g])
    /\ UNCHANGED <<topicVars, chanVars, now, procVars, histVars, connVars, codecVars, fnVars, sysVars>>

\* A caller holding the factory's lock calls new_guid while the clock reads ts.
\* The history keeps the reading, the result, and the factory as the call left it.
NewGuid(ts) ==
    /\ Len(issued) < MaxGuidCalls
    /\ LET r == new_guid(factory, ts) IN
       /\ factory' = r.f
       /\ issued' = Append(issued, [ts |-> ts, res |-> r.res, id |-> r.id, f |-> r.f])
    /\ UNCHANGED <<topicVars, chanVars, now, procVars, histVars, connVars, codecVars, fnVars, sysVars>>

\* One factory of any node id; the clock reads any value at each call.
InitGuid ==
    /\ CoreInit /\ CodecInit /\ FnInit
    /\ \E node_id \in 0..MaxNodeId : factory = GuidFactory_new(node_id)
    /\ issued = <<>>

NextGuid == \E ts \in 0..MaxClock : NewGuid(ts)

SpecGuid == InitGuid /\ [][NextGuid]_vars

\* ---------------------------------------------------- CodecV2, CodecSubV2
\* A frame of the decoders: its command, its names or message id, its number,
\* its bodies; cap is the capacity of MPUB's Vec of bodies.
CFrame(t, a, b, n, bodies, cap) ==
    [t |-> t, a |-> a, b |-> b, n |-> n, bodies |-> bodies, cap |-> cap]
NoFrame == CFrame("", <<>>, <<>>, 0, <<>>, 0)

\* What a call returns: Ok(None), Ok(Some(frame)) or Err(e).
RetNone == [kind |-> "None", frame |-> NoFrame, err |-> ""]
RetFrame(f) == [kind |-> "Frame", frame |-> f, err |-> ""]
RetErr(e) == [kind |-> "Err", frame |-> NoFrame, err |-> e]

\* buf.splitn(3, ' '): its items.
Split3(buf) ==
    IF ~SplitMore(buf, SP) THEN <<buf>>
    ELSE LET r == SplitRest(buf, SP) IN
         IF ~SplitMore(r, SP) THEN <<SplitHead(buf, SP), r>>
         ELSE <<SplitHead(buf, SP), SplitHead(r, SP), SplitRest(r, SP)>>

\* codec_v2.rs:144-158
codec_read_u64(n) == parse_u64(n)
codec_read_timeout(ms) == codec_read_u64(ms)

\* The match of init_frame on the line buf (codec_v2.rs:91-119).
init_frame_match(buf) ==
    LET parts == Split3(buf)
        cmd == parts[1]
        k == Len(parts)
    IN IF cmd = b_NOP /\ k = 1 THEN RetFrame(CFrame("NOP", <<>>, <<>>, 0, <<>>, 0))
       ELSE IF cmd = b_SUB /\ k = 3
       THEN IF try_to_string_name(parts[2]) /\ try_to_string_name(parts[3])
            THEN RetFrame(CFrame("SUB", parts[2], parts[3], 0, <<>>, 0))
            ELSE RetErr("E_BAD_TOPIC")
       ELSE IF cmd = b_PUB /\ k = 2
       THEN IF try_to_string_name(parts[2])
            THEN RetFrame(CFrame("PUB", parts[2], <<>>, 0, <<>>, 0))
            ELSE RetErr("E_BAD_TOPIC")
       ELSE IF cmd = b_DPUB /\ k = 3
       THEN IF ~try_to_string_name(parts[2]) THEN RetErr("E_BAD_TOPIC")
            ELSE IF ~codec_read_timeout(parts[3]).ok THEN RetErr("E_INVALID")
            ELSE RetFrame(CFrame("DPUB", parts[2], <<>>, codec_read_timeout(parts[3]).n, <<>>, 0))
       ELSE IF cmd = b_MPUB /\ k = 2
       THEN IF try_to_string_name(parts[2])
            THEN RetFrame(CFrame("MPUB", parts[2], <<>>, 0, <<>>, 0))
            ELSE RetErr("E_BAD_TOPIC")
       ELSE RetErr("E_BAD_CMD")

\* codec_sub_v2.rs:76-88
read_msg_id(buf) == Len(buf) >= MSG_ID_LENGTH

\* The match of CodecSubV2::decode on the line buf (codec_sub_v2.rs:51-72).
sub_decode_match(buf) ==
    LET parts == Split3(buf)
        cmd == parts[1]
        k == Len(parts)
        id == SubSeq(parts[2], 1, MSG_ID_LENGTH)
    IN IF cmd = b_CLS /\ k = 1 THEN RetFrame(CFrame("CLS", <<>>, <<>>, 0, <<>>, 0))
       ELSE IF cmd = b_NOP /\ k = 1 THEN RetFrame(CFrame("NOP", <<>>, <<>>, 0, <<>>, 0))
       ELSE IF cmd = b_FIN /\ k = 2
       THEN IF read_msg_id(parts[2]) THEN RetFrame(CFrame("FIN", id, <<>>, 0, <<>>, 0))
            ELSE RetErr("E_INVALID")
       ELSE IF cmd = b_RDY /\ k = 2
       THEN IF codec_read_u64(parts[2]).ok
            THEN RetFrame(CFrame("RDY", <<>>, <<>>, as_i64(codec_read_u64(parts[2]).n), <<>>, 0))
            ELSE RetErr("E_INVALID")
       ELSE IF cmd = b_REQ /\ k = 3
       THEN IF ~read_msg_id(parts[2]) THEN RetErr("E_INVALID")
            ELSE IF ~codec_read_timeout(parts[3]).ok THEN RetErr("E_INVALID")
            ELSE RetFrame(CFrame("REQ", id, <<>>, codec_read_timeout(parts[3]).n, <<>>, 0))
       ELSE IF cmd = b_TOUCH /\ k = 2
       THEN IF read_msg_id(parts[2]) THEN RetFrame(CFrame("TOUCH", id, <<>>, 0, <<>>, 0))
            ELSE RetErr("E_INVALID")
       ELSE RetErr("E_BAD_CMD")

\* The head of both decoders (codec_v2.rs:78-89, codec_sub_v2.rs:38-49): the
\* position of the first '\n' of src[next_index..] is counted from next_index,
\* and src.split_to(lf_index) takes that many bytes from the start of src; one
\* byte more is dropped.
take_line(c, s) ==
    LET rel == Position(SubSeq(s, c.next_index + 1, Len(s)), LF) IN
    IF rel = 0
    THEN [found |-> FALSE, buf |-> <<>>, src |-> s, next_index |-> Len(s)]
    ELSE [found |-> TRUE, buf |-> SubSeq(s, 1, rel - 1), src |-> Drain(s, rel), next_index |-> 0]

\* CodecV2::init_frame (codec_v2.rs:77-120).
init_frame(c, s) ==
    LET l == take_line(c, s) IN
    [codec |-> [c EXCEPT !.next_index = l.next_index],
     src |-> l.src,
     out |-> IF l.found THEN init_frame_match(l.buf) ELSE RetNone]

\* read_msg_body of the codec (codec_v2.rs:164-179).
codec_read_msg_body(s) ==
    IF Len(s) < 4 \/ Len(s) - 4 < U32(s)
    THEN [done |-> FALSE, body |-> <<>>, src |-> s]
    ELSE [done |-> TRUE, body |-> SubSeq(s, 5, 4 + U32(s)), src |-> Drain(s, 4 + U32(s))]

\* The loop of read_multi_msg_body (codec_v2.rs:215-226).
RECURSIVE read_multi_loop(_, _, _)
read_multi_loop(s, msgs, cap) ==
    IF Len(msgs) = cap THEN [st |-> "Completed", src |-> s, msgs |-> msgs]
    ELSE LET r == codec_read_msg_body(s) IN
         IF r.done THEN read_multi_loop(r.src, Append(msgs, r.body), cap)
         ELSE [st |-> "Incomplete", src |-> s, msgs |-> msgs]

\* read_multi_msg_body (codec_v2.rs:186-227) for the MPUB frame f.
\* Vec::with_capacity(msg_cnt) has the capacity msg_cnt.
read_multi_msg_body(s, f) ==
    IF f.cap # 0
    THEN LET r == read_multi_loop(s, f.bodies, f.cap) IN
         [st |-> r.st, src |-> r.src, frame |-> [f EXCEPT !.bodies = r.msgs]]
    ELSE IF Len(s) < 8 THEN [st |-> "Incomplete", src |-> s, frame |-> f]
    ELSE IF U32(s) <= 8 \/ U32(Drain(s, 4)) < 1 THEN [st |-> "E_BAD_BODY", src |-> s, frame |-> f]
    ELSE LET r == read_multi_loop(Drain(s, 8), <<>>, U32(Drain(s, 4))) IN
         [st |-> r.st, src |-> r.src,
          frame |-> [f EXCEPT !.bodies = r.msgs, !.cap = U32(Drain(s, 4))]]

\* CodecV2::decode (codec_v2.rs:44-73): the codec and the buffer it leaves, and
\* what it returns.
CodecV2_decode(c, s) ==
    LET init == IF c.frame = <<>> THEN init_frame(c, s)
                ELSE [codec |-> c, src |-> s, out |-> RetFrame(c.frame[1])]
    IN IF init.out.kind # "Frame" THEN init
       ELSE LET f == init.out.frame IN
            IF f.t \in {"NOP", "SUB"}
            THEN [codec |-> [init.codec EXCEPT !.frame = <<>>], src |-> init.src, out |-> RetFrame(f)]
            ELSE IF f.t \in {"PUB", "DPUB"}
            THEN LET r == codec_read_msg_body(init.src) IN
                 IF r.done
                 THEN [codec |-> [init.codec EXCEPT !.frame = <<>>], src |-> r.src,
                       out |-> RetFrame([f EXCEPT !.bodies = <<r.body>>])]
                 ELSE [codec |-> [init.codec EXCEPT !.frame = <<f>>], src |-> init.src,
                       out |-> RetNone]
            ELSE LET r == read_multi_msg_body(init.src, f) IN
                 IF r.st = "Completed"
                 THEN [codec |-> [init.codec EXCEPT !.frame = <<>>], src |-> r.src,
                       out |-> RetFrame(r.frame)]
                 ELSE [codec |-> [init.codec EXCEPT !.frame = <<r.frame>>], src |-> r.src,
                       out |-> IF r.st = "Incomplete" THEN RetNone ELSE RetErr(r.st)]

\* CodecSubV2::decode (codec_sub_v2.rs:37-73).
CodecSubV2_decode(c, s) ==
    LET l == take_line(c, s) IN
    [codec |-> [c EXCEPT !.next_index = l.next_index],
     src |-> l.src,
     out |-> IF l.found THEN sub_decode_match(l.buf) ELSE RetNone]

decode_OneCodec(kind, c, s) == CodecV2_decode(c, s)
decode(kind, c, s) == IF kind = "CodecV2" THEN CodecV2_decode(c, s) ELSE CodecSubV2_decode(c, s)

\* The stream decoded at once: every byte is in src before the first call, and
\* the decoder is called until it returns Ok(None).
RECURSIVE DecodeAll(_, _, _, _)
DecodeAll(kind, c, s, n) ==
    LET r == decode(kind, c, s) IN
    IF n = 0 \/ r.out.kind = "None" THEN <<>>
    ELSE <<r.out>> \o DecodeAll(kind, r.codec, r.src, n - 1)

WholeDecode(kind, bytes) == DecodeAll(kind, CodecV2_new, bytes, MaxDecodes)

\* The streams a connection sends: commands of each decoder, with their bodies.
b_ab == <<97, 98>>
b_cd == <<99, 100>>
V2Streams ==
    { b_NOP \o <<LF>>,
      b_NOP \o <<LF>> \o b_NOP \o <<LF>>,
      b_PUB \o <<SP>> \o b_ab \o <<LF, 0, 0, 0, 1, 120>>,
      b_SUB \o <<SP>> \o b_ab \o <<SP>> \o b_cd \o <<LF>>,
      b_DPUB \o <<SP>> \o b_ab \o <<SP, 53, LF, 0, 0, 0, 1, 120>>,
      b_MPUB \o <<SP>> \o b_ab \o <<LF, 0, 0, 0, 14, 0, 0, 0, 2, 0, 0, 0, 1, 120, 0, 0, 0, 1, 121>>,
      <<80, 85, 66, 88, SP>> \o b_ab \o <<LF>> \o b_NOP \o <<LF>> }
SubStreams ==
    { b_CLS \o <<LF>>,
      b_RDY \o <<SP, 49, LF>> \o b_NOP \o <<LF>>,
      b_FIN \o <<SP>> \o IdBytes(1) \o <<LF>>,
      b_REQ \o <<SP>> \o IdBytes(1) \o <<SP, 48, LF>>,
      b_TOUCH \o <<SP>> \o IdBytes(1) \o <<LF>> }

\* The next k bytes of the stream arrive and are appended to src.
Feed(k) ==
    /\ stream.fed + k <= Len(stream.bytes)
    /\ src' = src \o SubSeq(stream.bytes, stream.fed + 1, stream.fed + k)
    /\ stream' = [stream EXCEPT !.fed = @ + k, !.pending = TRUE]
    /\ UNCHANGED <<topicVars, chanVars, now, procVars, histVars, connVars, guidVars, fnVars, sysVars,
                   codec, decoded>>

\* The decoder is called on src; after Ok(None) it is called again when bytes
\* have arrived.
Decode ==
    /\ stream.pending
    /\ Len(decoded) < MaxDecodes
    /\ LET r == decode(stream.kind, codec, src) IN
       /\ codec' = r.codec
       /\ src' = r.src
       /\ decoded' = IF r.out.kind = "None" THEN decoded ELSE Append(decoded, r.out)
       /\ stream' = [stream EXCEPT !.pending = r.out.kind # "None"]
    /\ UNCHANGED <<topicVars, chanVars, now, procVars, histVars, connVars, guidVars, fnVars, sysVars>>

InitCodec ==
    /\ CoreInit /\ GuidInit /\ FnInit
    /\ codec = CodecV2_new
    /\ src = <<>>
    /\ decoded = <<>>
    /\ \/ \E b \in V2Streams : stream = [kind |-> "CodecV2", bytes |-> b, fed |-> 0, pending |-> FALSE]
       \/ \E b \in SubStreams : stream = [kind |-> "CodecSubV2", bytes |-> b, fed |-> 0, pending |-> FALSE]

NextCodec ==
    \/ \E k \in 1..MaxChunk : Feed(k)
    \/ Decode

SpecCodec == InitCodec /\ [][NextCodec]_vars

\* ------------------------------------------------------- name validation
\* 'a', '#', ' ', '\n', '.', '!'
NameAlphabet == {97, 35, SP, LF, 46, 33}

\* k bytes b.
Run(b, k) == [i \in 1..k |-> b]

RECURSIVE Strings(_)
Strings(k) ==
    IF k = 0 THEN {<<>>}
    ELSE Strings(k - 1) \cup {Append(w, b) : w \in Strings(k - 1), b \in NameAlphabet}

\* The suffixes tried after a run: none, "#ephemeral", "#ephemera", "#ephemeral"
\* twice, "#ephemeral" and one byte more.
NameSuffixes ==
    {<<>>, b_ephemeral, SubSeq(b_ephemeral, 1, Len(b_ephemeral) - 1),
     b_ephemeral \o b_ephemeral, b_ephemeral \o <<97>>}

Names ==
    Strings(MaxNameLen) \cup {Run(97, k) \o x : k \in 0..MaxRun, x \in NameSuffixes}

\* What the caller gets for a name: Ok, or the error of the `_` arm.
NameResult(ok) ==
    IF ok THEN [res |-> "Ok", code |-> ""]
    ELSE [res |-> "FatalClientErr", code |-> "E_BAD_TOPIC"]

\* command.rs's check_name is called on the name.
CallCheckName ==
    /\ ~\E i \in 1..Len(output) : output[i].fn = "check_name"
    /\ output' = Append(output, [fn |-> "check_name"] @@ NameResult(check_name(input)))
    /\ UNCHANGED <<topicVars, chanVars, now, procVars, histVars, connVars, guidVars, codecVars,
                   sysVars, input>>

\* codec_v2.rs's try_to_string_name is called on the name.
CallTryToStringName ==
    /\ ~\E i \in 1..Len(output) : output[i].fn = "try_to_string_name"
    /\ output' = Append(output, [fn |-> "try_to_string_name"]
                                   @@ NameResult(try_to_string_name(input)))
    /\ UNCHANGED <<topicVars, chanVars, now, procVars, histVars, connVars, guidVars, codecVars,
                   sysVars, input>>

InitNames ==
    /\ CoreInit /\ GuidInit /\ CodecInit
    /\ input \in Names
    /\ output = <<>>

NextNames == CallCheckName \/ CallTryToStringName

SpecNames == InitNames /\ [][NextNames]_vars

\* ------------------------------------------------------------ message.rs
\* BufMut::put_u64 / put_u32 / put_u16: n on w bytes, the most significant first.
RECURSIVE put_uint(_, _)
put_uint(n, w) == IF w = 0 THEN <<>> ELSE Append(put_uint(n \div 256, w - 1), n % 256)
put_u64(n) == put_uint(n, 8)
put_u32(n) == put_uint(n, 4)
put_u16(n) == put_uint(n, 2)

\* u64::from_be_bytes / u16::from_be_bytes.
RECURSIVE from_be_bytes(_)
from_be_bytes(b) ==
    IF b = <<>> THEN 0 ELSE from_be_bytes(SubSeq(b, 1, Len(b) - 1)) * 256 + b[Len(b)]

MIN_VALID_MSG_LEN == MSG_ID_LENGTH + 8 + 2

\* The fields of a Message that go on the wire.
Message(id, body, timestamp, attempts) ==
    [id |-> id, body |-> body, timestamp |-> timestamp, attempts |-> attempts]

\* Message::put_to: the bytes appended to dst.
Message_put_to(msg) ==
    put_u64(msg.timestamp) \o put_u16(msg.attempts) \o msg.id \o msg.body

\* Message::decode.  b[..8], b[8..10], b[10..10 + MSG_ID_LENGTH] and
\* b.slice(10..MSG_ID_LENGTH) count from 0 and leave their end out.
Message_decode(b) ==
    IF Len(b) < MIN_VALID_MSG_LEN
    THEN [ok |-> FALSE, err |-> "InvalidMsgLength", msg |-> Message(<<>>, <<>>, 0, 0)]
    ELSE [ok |-> TRUE, err |-> "",
          msg |-> Message(SubSeq(b, 11, 10 + MSG_ID_LENGTH),
                          SubSeq(b, 11, MSG_ID_LENGTH),
                          from_be_bytes(SubSeq(b, 1, 8)),
                          from_be_bytes(SubSeq(b, 9, 10)))]

\* Message::len
Message_len_NoHeader(msg) == Len(msg.body)
Message_len(msg) == 26 + Len(msg.body)

\* The messages encoded.  The timestamps are nanoseconds of the wall clock in
\* the code; here they are values whose bytes differ in several places.
MsgTimestamps == {0, 1, 255, 256, 65536}
MsgAttempts == {0, 1, 256}
MsgBodies ==
    Strings(MaxBodyLen)
        \cup {SubSeq(IdBytes(1), 1, 6), SubSeq(IdBytes(1), 1, 7), IdBytes(2) \o <<120>>}
Messages ==
    {Message(IdBytes(k), body, ts, att) :
        k \in 1..MaxMsgs, body \in MsgBodies, ts \in MsgTimestamps, att \in MsgAttempts}

\* The message is encoded into an empty buffer.
PutTo ==
    /\ output = <<>>
    /\ output' = <<[bytes |-> Message_put_to(input)]>>
    /\ UNCHANGED <<topicVars, chanVars, now, procVars, histVars, connVars, guidVars, codecVars,
                   sysVars, input>>

\* The bytes are decoded.
DecodeMessage ==
    /\ Len(output) = 1
    /\ output' = Append(output, Message_decode(output[1].bytes))
    /\ UNCHANGED <<topicVars, chanVars, now, procVars, histVars, connVars, guidVars, codecVars,
                   sysVars, input>>

InitMessage ==
    /\ CoreInit /\ GuidInit /\ CodecInit
    /\ input \in Messages
    /\ output = <<>>

NextMessage == PutTo \/ DecodeMessage

SpecMessage == InitMessage /\ [][NextMessage]_vars

\* ------------------------------------------- response.rs, Encoder of CodecV2
\* enum Resp
Resp_Resp == 0
Resp_Err == 1
Resp_Msg == 2

\* Message::write_to(writer): the bytes of the message, timestamp, attempts, id
\* and body.
Message_write_to(msg) == Message_put_to(msg)

\* Resp::send_resp, Resp::send_err, Resp::send_msg: the bytes written.  The
\* sizes stay far below u32::MAX.
send_resp(resp) == put_u32(Len(resp) + 4) \o put_u32(Resp_Resp) \o resp
send_err(err) == put_u32(Len(err) + 4) \o put_u32(Resp_Err) \o err
send_msg(msg) == put_u32(Message_len(msg) + 4) \o put_u32(Resp_Msg) \o Message_write_to(msg)

\* What is sent: a response or an error with its bytes, or a message.
RespValue(kind, payload, msg) == [kind |-> kind, payload |-> payload, msg |-> msg]
Resps ==
    {RespValue(kind, payload, Message(<<>>, <<>>, 0, 0)) :
        kind \in {"Resp", "Err"}, payload \in Strings(MaxBodyLen)}
    \cup {RespValue("Msg", <<>>, msg) : msg \in Messages}

\* frame_v2's Resp: the frame type, the length of the payload, the payload.
get_code(resp) ==
    CASE resp.kind = "Resp" -> Resp_Resp
      [] resp.kind = "Err" -> Resp_Err
      [] resp.kind = "Msg" -> Resp_Msg
get_inner_size(resp) ==
    IF resp.kind = "Msg" THEN Message_len(resp.msg) ELSE Len(resp.payload)
Resp_put_to(resp) ==
    IF resp.kind = "Msg" THEN Message_put_to(resp.msg) ELSE resp.payload

\* Encoder::encode of CodecV2 and of CodecSubV2: the bytes appended to dst.
encode(resp) ==
    put_u32(get_inner_size(resp) + 4) \o put_u32(get_code(resp)) \o Resp_put_to(resp)

\* The value is written with the function of response.rs for its kind.
Send ==
    /\ ~\E i \in 1..Len(output) : output[i].via = "send"
    /\ output' = Append(output,
                        [via |-> "send",
                         bytes |-> CASE input.kind = "Resp" -> send_resp(input.payload)
                                     [] input.kind = "Err" -> send_err(input.payload)
                                     [] input.kind = "Msg" -> send_msg(input.msg)])
    /\ UNCHANGED <<topicVars, chanVars, now, procVars, histVars, connVars, guidVars, codecVars,
                   sysVars, input>>

\* The value is encoded by the codec into an empty buffer.
Encode ==
    /\ ~\E i \in 1..Len(output) : output[i].via = "encode"
    /\ output' = Append(output, [via |-> "encode", bytes |-> encode(input)])
    /\ UNCHANGED <<topicVars, chanVars, now, procVars, histVars, connVars, guidVars, codecVars,
                   sysVars, input>>

InitResp ==
    /\ CoreInit /\ GuidInit /\ CodecInit
    /\ input \in Resps
    /\ output = <<>>

NextResp == Send \/ Encode

SpecResp == InitResp /\ [][NextResp]_vars

\* ------------------------------------- the commands of each connection state
\* The lines a connection sends: a command and its arguments, each after a space.
LineCmds == {b_CLS, b_NOP, b_FIN, b_RDY, b_REQ, b_TOUCH, b_SUB, b_PUB, b_DPUB, b_MPUB}
LineArgs ==
    {<<>>, <<b_ab>>, <<IdBytes(1)>>, <<<<49>>>>, <<b_ab, b_cd>>, <<IdBytes(1), <<49>>>>,
     <<b_ab, <<49>>>>}

RECURSIVE LineBytes(_, _)
LineBytes(cmd, args) ==
    IF args = <<>> THEN cmd ELSE LineBytes(cmd \o <<SP>> \o Head(args), Tail(args))

\* What a parser answered: a frame and its command, or an error and its code.
LineResult(by, ok, t, err) ==
    [by |-> by, res |-> IF ok THEN "Frame" ELSE "Err", t |-> IF ok THEN t ELSE err]

Asked(by) == \E i \in 1..Len(output) : output[i].by = by

\* The line arrives, with its '\n', at a new decoder of the connection before it
\* subscribes (CodecV2) or after (CodecSubV2).
DecodeLine(kind) ==
    /\ ~Asked(kind)
    /\ LET r == decode(kind, CodecV2_new, LineBytes(input.cmd, input.args) \o <<LF>>) IN
       output' = Append(output, LineResult(kind, r.out.kind # "Err", r.out.frame.t, r.out.err))
    /\ UNCHANGED <<topicVars, chanVars, now, procVars, histVars, connVars, guidVars, codecVars,
                   sysVars, input>>

\* The line is read by ClientV2::serve's parser, Frame::parse.
ParseLine ==
    /\ ~Asked("Frame::parse")
    /\ LET r == Frame_parse(LineBytes(input.cmd, input.args) \o <<LF>>, <<>>) IN
       output' = Append(output, LineResult("Frame::parse", r.ok, r.t, r.err))
    /\ UNCHANGED <<topicVars, chanVars, now, procVars, histVars, connVars, guidVars, codecVars,
                   sysVars, input>>

\* The line is read by SubscriberV2::serve's parser, FrameSub::parse.
ParseSubLine ==
    /\ ~Asked("FrameSub::parse")
    /\ LET r == FrameSub_parse(LineBytes(input.cmd, input.args) \o <<LF>>) IN
       output' = Append(output, LineResult("FrameSub::parse", r.ok, r.t, r.err))
    /\ UNCHANGED <<topicVars, chanVars, now, procVars, histVars, connVars, guidVars, codecVars,
                   sysVars, input>>

InitLines ==
    /\ CoreInit /\ GuidInit /\ CodecInit
    /\ input \in [cmd : LineCmds, args : LineArgs]
    /\ output = <<>>

NextLines ==
    \/ \E kind \in {"CodecV2", "CodecSubV2"} : DecodeLine(kind)
    \/ ParseLine
    \/ ParseSubLine

SpecLines == InitLines /\ [][NextLines]_vars

\* ------------------------------------------------------------ NSQD::start
\* exit_token.cancel(), by whoever holds a clone of the token.
Cancel ==
    /\ ~nsqd.cancelled
    /\ nsqd' = [nsqd EXCEPT !.cancelled = TRUE]
    /\ UNCHANGED <<topicVars, chanVars, now, procVars, histVars, connVars, guidVars, codecVars, fnVars>>

\* start up to its select! (nsqd.rs:126-177): the broadcast channel is made, tx
\* is a local of start, and the accept loop is spawned on task_tracker with a
\* Shutdown subscribed to tx.
StartEnter ==
    /\ nsqd.start = "new"
    /\ nsqd' = [nsqd EXCEPT !.start = "select", !.tx = "alive", !.accept = "bind"]
    /\ UNCHANGED <<topicVars, chanVars, now, procVars, histVars, connVars, guidVars, codecVars, fnVars>>

\* start's select! (nsqd.rs:179-185): exit_token.cancelled() is its only arm;
\* then task_tracker.close().
StartCancelled ==
    /\ nsqd.start = "select"
    /\ nsqd.cancelled
    /\ nsqd' = [nsqd EXCEPT !.start = "wait"]
    /\ UNCHANGED <<topicVars, chanVars, now, procVars, histVars, connVars, guidVars, codecVars, fnVars>>

\* task_tracker.wait() (nsqd.rs:188) returns when the tracker is closed and the
\* accept task has ended; start returns and its locals, tx among them, are
\* dropped.
StartReturn ==
    /\ nsqd.start = "wait"
    /\ nsqd.accept \in {"done", "panicked"}
    /\ nsqd' = [nsqd EXCEPT !.start = "returned", !.tx = "dropped"]
    /\ UNCHANGED <<topicVars, chanVars, now, procVars, histVars, connVars, guidVars, codecVars, fnVars>>

\* The accept task's TcpListener::bind(..).await.unwrap() (nsqd.rs:133): the
\* task panics when the address cannot be bound.
AcceptBind(ok) ==
    /\ nsqd.accept = "bind"
    /\ nsqd' = [nsqd EXCEPT !.accept = IF ok THEN "select" ELSE "panicked"]
    /\ UNCHANGED <<topicVars, chanVars, now, procVars, histVars, connVars, guidVars, codecVars, fnVars>>

\* Shutdown::recv (shutdown.rs:20-27) returns once notify.recv() does: when a
\* value was sent on tx, which nothing does, or when tx is dropped.
ShutdownReady == nsqd.tx = "dropped"

\* The accept loop's select! (nsqd.rs:136-158): a connection is accepted and its
\* task spawned on the loop's own tracker, or shutdown.recv() returns and the
\* loop breaks to tracker.wait(), on a tracker that is never closed.
AcceptSelect ==
    /\ nsqd.accept = "select"
    /\ \E arm \in {"accept"} \cup (IF ShutdownReady THEN {"shutdown"} ELSE {}) :
          IF arm = "shutdown"
          THEN nsqd' = [nsqd EXCEPT !.accept = "tracker_wait"]
          ELSE /\ nsqd.conns < MaxConns
               /\ nsqd' = [nsqd EXCEPT !.accept = "sleep", !.conns = @ + 1,
                                        !.accepted = (@ + 1) % 2]
    /\ UNCHANGED <<topicVars, chanVars, now, procVars, histVars, connVars, guidVars, codecVars, fnVars>>

\* sleep(5s) at the end of the loop's body (nsqd.rs:160).
AcceptSleep ==
    /\ nsqd.accept = "sleep"
    /\ nsqd' = [nsqd EXCEPT !.accept = "select"]
    /\ UNCHANGED <<topicVars, chanVars, now, procVars, histVars, connVars, guidVars, codecVars, fnVars>>

\* A connection's task ends after its sleep(15s) (nsqd.rs:141-151).
ConnDone ==
    /\ nsqd.conns > 0
    /\ nsqd' = [nsqd EXCEPT !.conns = @ - 1]
    /\ UNCHANGED <<topicVars, chanVars, now, procVars, histVars, connVars, guidVars, codecVars, fnVars>>

\* NSQD::start, the token, and the serve loop of a connection.
NextShutdown ==
    \/ Cancel
    \/ StartEnter
    \/ StartCancelled
    \/ StartReturn
    \/ \E ok \in BOOLEAN : AcceptBind(ok)
    \/ AcceptSelect
    \/ AcceptSleep
    \/ ConnDone
    \/ \E c \in ConnIds, cmd \in ClientCmds : ClientParse(c, cmd)
    \/ \E c \in ConnIds : ClientHeartbeat(c)

\* Every task is scheduled when it can run.
SpecShutdown ==
    /\ Init /\ [][NextShutdown]_vars
    /\ WF_vars(StartEnter) /\ WF_vars(StartCancelled) /\ WF_vars(StartReturn)
    /\ WF_vars(\E ok \in BOOLEAN : AcceptBind(ok))
    /\ WF_vars(AcceptSelect) /\ WF_vars(AcceptSleep) /\ WF_vars(ConnDone)
    /\ \A c \in ConnIds : WF_vars(ClientHeartbeat(c))

\* ======================================================================
\* Properties
\* ======================================================================
\* The ids the receiver of channel n can still return: unread and not overwritten.
PendingIds(n) ==
    IF ~rx[n].alive THEN {}
    ELSE LET log == bcLog[rx[n].gen]
             lo == Max({rx[n].next, Len(log) - Cap(rx[n].gen)})
         IN {log[i].id : i \in (lo + 1)..Len(log)}

\* The ids the serve loop of channel n received.
ReceivedIds(n) == Ids(serveRecv[n])

\* The ids channel n holds or has handed on.
HeldIds(n) ==
    Ids(mem[n]) \cup Ids(inhand[n]) \cup Ids(popLog[n])
        \cup {defered_pq[n][i].msg.id : i \in 1..Len(defered_pq[n])}

NonDeferred(s) == SelectSeq(s, LAMBDA m : ~is_defered(m))

\* C1: every message whose put_msg returned Ok, and every channel registered
\* in the topic at that publish: the channel's serve loop has received the
\* message or its receiver can still return it (no registered channel misses a
\* published message).
C1_NoRegisteredChannelMisses ==
    \A i \in 1..Len(pubLog) :
        pubLog[i].res = "Ok" =>
            \A n \in pubLog[i].regs :
                pubLog[i].msg.id \in ReceivedIds(n) \cup PendingIds(n)

\* C2: a publish with no channel registered returns Ok and stores the message
\* nowhere; a channel not registered at a publish never has that message, neither
\* pending in its receiver nor received by its serve loop nor in its buffers.
C2_VoidPublishDiscarded ==
    \A i \in 1..Len(pubLog) :
        LET e == pubLog[i] IN
        /\ e.regs = {} =>
              /\ e.res = "Ok"
              /\ ~e.stored
              /\ \A g \in DOMAIN bcLog : e.msg.id \notin Ids(bcLog[g])
        /\ \A n \in ChannelNames \ e.regs :
              e.msg.id \notin ReceivedIds(n) \cup PendingIds(n) \cup HeldIds(n)

\* C2's case: a message was published with no channel registered, a channel was
\* registered afterwards, and its serve loop has received a later message.
C2_Witness ==
    \E i \in 1..Len(pubLog), n \in ChannelNames :
        /\ pubLog[i].regs = {}
        /\ channel_map[n] # 0
        /\ \E j \in (i + 1)..Len(pubLog) : pubLog[j].msg.id \in ReceivedIds(n)

\* C7: every put_msg made after Topic::close fails with Exiting.
C7_NoPublishAfterClose ==
    \A i \in 1..Len(pubLog) : pubLog[i].gen > 0 => pubLog[i].res = "Exiting"

\* C8: add_channel for a name already in the map returns Ok; for each name at
\* most one Channel is ever created and at most one receiver subscribed, and the
\* map holds the Channel created first.
C8_AddChannelIdempotent ==
    /\ \A r \in addResults : r[1] => r[2] = "Ok"
    /\ \A n \in ChannelNames :
          /\ created[n] <= 1
          /\ subscribed[n] <= 1
          /\ channel_map[n] = created[n]

\* C8's case: add_channel was called for a name already in the map.
C8_Witness ==
    /\ <<TRUE, "Ok">> \in addResults
    /\ \E n \in ChannelNames : channel_map[n] = 1 /\ created[n] = 1 /\ subscribed[n] = 1

C3_AddClientResult ==
    \A p \in Procs :
        res[p].op = "add_client" =>
            /\ res[p].r = "Exiting" => exit_flag[Chan]
            /\ res[p].r # "Exiting" =>
                  /\ arg[p] \in snap[p] => res[p].r = "Ok" /\ ~res[p].inserted
                  /\ (arg[p] \notin snap[p] /\ Cardinality(snap[p]) < MaxChannelSubscribers) =>
                        res[p].r = "Ok" /\ res[p].inserted /\ arg[p] \in clients[Chan]
                  /\ (arg[p] \notin snap[p] /\ Cardinality(snap[p]) >= MaxChannelSubscribers) =>
                        res[p].r = "MaxSubscriberReached" /\ ~res[p].inserted

\* C3's case: with the registry full, one call re-added a registered id and
\* got Ok, another brought a new id and got MaxSubscriberReached.
C3_Witness ==
    \E p, q \in Procs :
        /\ res[p].op = "add_client" /\ res[p].r = "Ok" /\ arg[p] \in snap[p]
        /\ Cardinality(snap[p]) = MaxChannelSubscribers
        /\ res[q].op = "add_client" /\ res[q].r = "MaxSubscriberReached"
        /\ Cardinality(snap[q]) = MaxChannelSubscribers /\ arg[q] \notin snap[q]

\* C4: a Channel's registry never holds more than max_channel_subscribers
\* consumers.
C4_SubscriberLimit ==
    \A n \in ChannelNames : Cardinality(clients[n]) <= MaxChannelSubscribers

\* C4's case: the registry is full while two callers are inside add_client with
\* new ids, one holding the lock and one waiting for it.
C4_Witness ==
    /\ Cardinality(clients[Chan]) = MaxChannelSubscribers
    /\ \E p, q \in Procs :
          /\ pc[p] = "ac_max" /\ pc[q] = "ac_lock"
          /\ arg[p] \notin clients[Chan] /\ arg[q] \notin clients[Chan]

\* C5: exit's close loop runs at most once; a call that returned Ok is the one
\* that ran it; a call that returned Exiting wrote nothing and found the latch
\* set by the call that won it; once won, the latch stays set.
C5_ExitOneShot ==
    /\ closeRuns <= 1
    /\ Cardinality({p \in Procs : res[p].op = "exit" /\ res[p].r = "Ok"}) <= 1
    /\ (closeRuns > 0 \/ \E q \in Procs : pc[q] = "ex_close") => exit_flag[Chan]
    /\ closeRuns = 0 => closedClients = {}
    /\ closedClients \subseteq clients[Chan]
    /\ \A p \in Procs :
          res[p].op = "exit" =>
              /\ res[p].r = "Ok" => closeRuns = 1
              /\ res[p].r = "Exiting" =>
                    /\ exit_flag[Chan]
                    /\ ~res[p].inserted
                    /\ closeRuns = 1 \/ \E q \in Procs \ {p} : pc[q] = "ex_close"

\* C5's case: one exit closed the registered consumers and another returned
\* Exiting.
C5_Witness ==
    /\ closeRuns = 1
    /\ closedClients # {}
    /\ \E p \in Procs : res[p].op = "exit" /\ res[p].r = "Exiting"

\* C6: once a Channel's exit_flag is set, no step adds a consumer to its
\* registry or a message to its ready buffer or its deferred heap.
C6_ClosedAcceptsNothing ==
    [][\A n \in ChannelNames :
          exit_flag[n] =>
              /\ clients'[n] \subseteq clients[n]
              /\ Ids(mem'[n]) \subseteq Ids(mem[n])
              /\ Len(defered_pq'[n]) <= Len(defered_pq[n])]_vars


\* C10: pop_defered_msg(curr) returns an entry only if its deadline, the time
\* of its push plus its delay, is <= curr; the entry then has the smallest
\* deadline of the heap and is the one entry removed.  Otherwise it returns
\* nothing, the heap is unchanged, and no deadline in it is <= curr.
C10_PopDeferred ==
    /\ \A i \in 1..Len(defered_pq[Chan]) :
          defered_pq[Chan][i].deadline
              = defered_pq[Chan][i].pushedAt + get_defered(defered_pq[Chan][i].msg)
    /\ lastPop.valid =>
          LET b == lastPop.before IN
          IF lastPop.ret = <<>>
          THEN /\ defered_pq[Chan] = b
               /\ b = <<>> \/ MinDeadline(b) > lastPop.curr
          ELSE LET e == lastPop.ret[1] IN
               /\ e.deadline <= lastPop.curr
               /\ e.pushedAt + get_defered(e.msg) <= lastPop.curr
               /\ e.deadline = MinDeadline(b)
               /\ \E i \in 1..Len(b) : b[i] = e /\ defered_pq[Chan] = RemoveAt(b, i)

\* C10's case: from a heap of two entries, a message deferred by D > 0 is
\* returned by a pop made exactly at its deadline.
C10_Witness ==
    /\ lastPop.valid
    /\ lastPop.ret # <<>>
    /\ Len(lastPop.before) >= 2
    /\ get_defered(lastPop.ret[1].msg) > 0
    /\ lastPop.ret[1].deadline = lastPop.curr


\* The ids in the deferred heap of channel n whose deadline has passed, and those
\* on its ready path.
DueIds(n) ==
    {defered_pq[n][i].msg.id : i \in {i \in 1..Len(defered_pq[n]) : defered_pq[n][i].deadline <= now}}
ReadyIds(n) == Ids(mem[n]) \cup Ids(inhand[n]) \cup Ids(popLog[n])

\* A Channel is live: not exiting, and its serve loop has not left its loop.
Live(n) == ~exit_flag[n] /\ task[n] \in {"recv", "send"}

\* C11: a message in the deferred heap of a Channel whose deadline has passed
\* eventually is on the Channel's ready path (ready buffer or taken by a
\* consumer), unless the Channel stops being live.
C11_DeferredPromoted ==
    \A n \in ChannelNames : \A k \in 1..MaxMsgs :
        (k \in DueIds(n)) ~> (k \in ReadyIds(n) \/ ~Live(n))

\* C12: a connection is handed no more messages than the credit it granted
\* with RDY; one that sent no RDY is handed none.
C12_DeliveryWithinCredit ==
    \A c \in ConnIds : Len(connLog[c].taken) <= connLog[c].rdy

\* C13: once a connection's stream has ended, every message it took and neither
\* FIN'd nor REQ'd is back in the Channel's ready buffer.
C13_UnackedRequeued ==
    \A c \in ConnIds :
        connLog[c].eof => \A k \in Unacked(c) : k \in Ids(mem[Chan])

\* C14: a FIN for a message in flight for the connection finishes it: it is
\* counted in finish_count; a FIN for a message not in flight for it is answered
\* with an Error frame, and finishes nothing.
C14_Finish ==
    \A c \in ConnIds :
        /\ counter[c].finish_count = Cardinality(connLog[c].fin)
        /\ connLog[c].finOther # {} => \E i \in 1..Len(written[c]) : written[c][i] = "Error"

\* C18: a line that is no command parses to the fatal error E_BAD_CMD; the
\* connection is then written an Error frame and closed, and no line after it
\* is parsed.
C18_BadCommandCloses ==
    \A c \in ConnIds :
        /\ \A i \in 1..Len(connLog[c].results) :
              connLog[c].results[i].kind = "PUBX" => connLog[c].results[i].res = "E_BAD_CMD"
        /\ connLog[c].bad =>
              /\ \E i \in 1..Len(written[c]) : written[c][i] = "Error"
              /\ clientPc[c] = "closed"
              /\ connLog[c].afterBad = 0

\* C15: of the ids one factory returned, each is strictly greater than every
\* one returned before it (so no two are equal), whatever the clock read.
C15_GuidStrictlyIncreasing ==
    \A i, j \in 1..Len(issued) :
        (i < j /\ issued[i].res = "Ok" /\ issued[j].res = "Ok") => issued[i].id < issued[j].id

\* C15's case: two ids issued in one tick, a call refused because the clock
\* went backwards, and an id issued after the clock advanced.
C15_Witness ==
    /\ Len(issued) = 4
    /\ issued[1].res = "Ok" /\ issued[2].res = "Ok" /\ issued[1].ts = issued[2].ts
    /\ issued[3].res = "TimeBackwards"
    /\ issued[4].res = "Ok" /\ issued[4].ts > issued[2].ts

\* The whole stream has arrived and the decoder has returned Ok(None).
Quiescent == stream.fed = Len(stream.bytes) /\ ~stream.pending

\* C16: when the whole stream has arrived, in whatever chunks, and the decoder
\* has been called after each, the frames and errors it returned are those of
\* decoding the stream at once; a stream of valid frames gives no error.
C16_ChunkingInvariant ==
    /\ Quiescent => decoded = WholeDecode(stream.kind, stream.bytes)
    /\ (\A i \in 1..Len(WholeDecode(stream.kind, stream.bytes)) :
            WholeDecode(stream.kind, stream.bytes)[i].kind = "Frame")
          => \A i \in 1..Len(decoded) : decoded[i].kind = "Frame"

\* C17: a name is accepted exactly when it is 2 to 64 bytes long and is one
\* byte or more of [.A-Za-z0-9_-] optionally followed by "#ephemeral"; any other
\* name is answered with a fatal client error.
C17_NameAccepted ==
    LET n == Len(input)
        wellFormed ==
            /\ n >= 2 /\ n <= 64
            /\ \E k \in 1..n :
                  /\ \A i \in 1..k : NameByte(input[i])
                  /\ k = n \/ SubSeq(input, k + 1, n) = b_ephemeral
    IN \A i \in 1..Len(output) :
           /\ output[i].res = "Ok" <=> wellFormed
           /\ output[i].res # "Ok" => output[i].res = "FatalClientErr"

\* C17's case: a name of 64 bytes ending in "#ephemeral" went through both
\* functions and was accepted.
C17_Witness ==
    /\ Len(input) = 64
    /\ SubSeq(input, 55, 64) = b_ephemeral
    /\ Len(output) = 2
    /\ \A i \in 1..2 : output[i].res = "Ok"

\* C19: the bytes a Message is encoded to decode to a Message with the same
\* id, timestamp, attempts and body, whatever the body, the empty one too.
C19_RoundTrip ==
    Len(output) = 2 =>
        /\ output[2].ok
        /\ output[2].msg = input

C21_SubscribedOnce ==
    \A i \in 1..Len(output) :
        LET o == output[i] IN
        /\ (o.by \in {"CodecSubV2", "FrameSub::parse"} /\ input.cmd = b_SUB)
              => o.res = "Err" /\ o.t = "E_BAD_CMD"
        /\ (o.by \in {"CodecV2", "Frame::parse"}
                /\ input.cmd \in {b_CLS, b_RDY, b_FIN, b_REQ, b_TOUCH})
              => o.res = "Err" /\ o.t = "E_BAD_CMD"

\* C21's case: a well-formed SUB, which the decoder of a connection not
\* subscribed accepts, has reached the decoder of a subscribed one.
C21_Witness ==
    /\ input.cmd = b_SUB /\ input.args = <<b_ab, b_cd>>
    /\ \E i \in 1..Len(output) : output[i].by = "CodecV2" /\ output[i].res = "Frame"
    /\ \E i \in 1..Len(output) : output[i].by = "CodecSubV2" /\ output[i].res = "Err"

\* C22: once the exit token is cancelled, the TCP accept loop eventually stops
\* and NSQD::start eventually returns.  (The claim says as much of every
\* connection's serve loop too.)
C22_ShutdownObserved ==
    nsqd.cancelled ~>
        /\ nsqd.start = "returned"
        /\ nsqd.accept \in {"done", "panicked", "tracker_wait"}

\* C23: a serve loop that holds a non-deferred message while the ready buffer
\* is full does not wait for ever: it goes on (the message handed to the
\* backend), unless a consumer makes room.
C23_FullBufferProgress ==
    \A n \in ChannelNames :
        (task[n] = "send" /\ Len(mem[n]) = MemQueueSize)
            ~> (task[n] # "send" \/ Len(mem[n]) < MemQueueSize)

\* C24: once the Topic is closed, the serve task of every Channel registered
\* before the close eventually terminates, its ready buffer closed and drained.
C24_CloseTerminatesServe ==
    \A n \in ChannelNames :
        (channel_map[n] # 0 /\ rx[n].gen < txGen)
            ~> (task[n] = "done" /\ memClosed[n] /\ mem[n] = <<>>)

\* C25: no Channel in the map was created after a Topic::close: each was
\* subscribed to the sender the Topic was made with.
C25_NoChannelAfterClose ==
    \A n \in ChannelNames : channel_map[n] # 0 => rx[n].gen = 0

C27_NoDuplicateDeferred ==
    LET heap == {defered_pq[Chan][i].msg.id : i \in 1..Len(defered_pq[Chan])} IN
    /\ Cardinality(heap) = Len(defered_pq[Chan])
    /\ heap = defered_msgs(Chan)

\* The factory as the i-th new_guid call of the history found it.
FactoryBefore(i) ==
    IF i = 1 THEN GuidFactory_new(factory.node_id) ELSE issued[i - 1].f

\* The three fields of an id (guid.rs:68-69).
SeqField(id) == id % Pow2(SEQUENCE_BITS)
NodeField(id) == (id \div Pow2(NODE_ID_SHIFT)) % Pow2(NODE_ID_BITS)
TimeField(id) == id \div Pow2(TIMESTAMP_SHIFT)

\* C28: a call whose clock reading is below last_timestamp fails with
\* TimeBackwards, returns no id and leaves the factory as it found it; a call
\* whose reading is at or above last_timestamp is not refused for the clock,
\* and the call after a refused one does what it would have done without it.
C28_ClockBackwards ==
    \A i \in 1..Len(issued) :
        LET pre == FactoryBefore(i)
            c == issued[i]
        IN /\ c.ts < pre.last_timestamp =>
                 /\ c.res = "TimeBackwards" /\ c.id = 0 /\ c.f = pre
                 /\ i < Len(issued) =>
                        LET r == new_guid(pre, issued[i + 1].ts) IN
                        /\ issued[i + 1].res = r.res
                        /\ issued[i + 1].id = r.id
                        /\ issued[i + 1].f = r.f
           /\ c.ts >= pre.last_timestamp => c.res # "TimeBackwards"

\* C28's case: a call refused because the clock went backwards, after ids were
\* issued, and the next call, at the last recorded timestamp, given an id.
C28_Witness ==
    \E i \in 2..Len(issued) - 1 :
        /\ issued[i - 1].res = "Ok"
        /\ issued[i].res = "TimeBackwards"
        /\ issued[i + 1].res = "Ok"
        /\ issued[i + 1].ts = issued[i].f.last_timestamp

\* C29: a call in the time unit of the one before it leaves the sequence one
\* greater modulo 2^SEQUENCE_BITS and fails with SequenceExpired when that is
\* 0; no more than 2^SEQUENCE_BITS ids are issued for one reading of the
\* clock; and an issued id holds the sequence in its low SEQUENCE_BITS bits,
\* the node id in the NODE_ID_BITS bits above them and the timestamp, less
\* TWEPOCH, in the bits above those.
C29_SequenceAndLayout ==
    \A i \in 1..Len(issued) :
        LET pre == FactoryBefore(i)
            c == issued[i]
        IN /\ c.ts = pre.last_timestamp =>
                 /\ c.f.sequence = (pre.sequence + 1) % Pow2(SEQUENCE_BITS)
                 /\ c.f.sequence = 0 => c.res = "SequenceExpired"
           /\ c.res = "SequenceExpired" => c.ts = pre.last_timestamp /\ c.f.sequence = 0
           /\ Cardinality({j \in 1..Len(issued) :
                              issued[j].res = "Ok" /\ issued[j].ts = c.ts})
                  <= Pow2(SEQUENCE_BITS)
           /\ c.res = "Ok" =>
                 /\ SeqField(c.id) = c.f.sequence
                 /\ NodeField(c.id) = factory.node_id
                 /\ TimeField(c.id) = TimeField(Shl(c.ts - TWEPOCH, TIMESTAMP_SHIFT))

\* C30: after a call failed with SequenceExpired, a later call is given an id
\* only if its clock reading is greater than that call's; and no id is
\* returned by two calls.
C30_ExhaustedUntilClockAdvances ==
    \A i, j \in 1..Len(issued) :
        i < j =>
            /\ (issued[i].res = "SequenceExpired" /\ issued[j].res = "Ok")
                   => issued[j].ts > issued[i].ts
            /\ (issued[i].res = "SequenceExpired" /\ issued[j].ts = issued[i].ts)
                   => issued[j].id = 0
            /\ (issued[i].res = "Ok" /\ issued[j].res = "Ok")
                   => issued[i].id # issued[j].id

\* C30's case: ids issued in one time unit until the sequence wrapped, a
\* further call in that unit refused, and an id issued once the clock advanced.
C30_Witness ==
    \E i \in 2..Len(issued) - 2 :
        /\ issued[i - 1].res = "Ok" /\ issued[i - 1].ts = issued[i].ts
        /\ issued[i].res = "SequenceExpired"
        /\ issued[i + 1].ts = issued[i].ts /\ issued[i + 1].res # "Ok"
        /\ issued[i + 2].res = "Ok" /\ issued[i + 2].ts > issued[i].ts

\* ------------------------------------------------- commands with their bodies
\* What a publisher sends: a command line, the bodies after it as the command
\* frames them, and the bytes of the command that follows.
b_5 == <<53>>
WireCmds == {b_NOP, b_SUB, b_PUB, b_DPUB, b_MPUB, b_CLS}
WireBodies == UNION {[1..k -> {120, LF}] : k \in 0..MaxWireBody}
WireAfter == {<<>>, b_NOP \o <<LF>>}

WireLine(cmd) ==
    IF cmd = b_SUB THEN LineBytes(cmd, <<b_ab, b_cd>>)
    ELSE IF cmd = b_DPUB THEN LineBytes(cmd, <<b_ab, b_5>>)
    ELSE IF cmd \in {b_PUB, b_MPUB} THEN LineBytes(cmd, <<b_ab>>)
    ELSE cmd

\* [ 4-byte size ][ body ] of each body, one after the other.
RECURSIVE WireMsgs(_)
WireMsgs(bodies) ==
    IF bodies = <<>> THEN <<>>
    ELSE put_u32(Len(Head(bodies))) \o Head(bodies) \o WireMsgs(Tail(bodies))

\* The bytes after the line: PUB and DPUB send one framed body, MPUB the size
\* of what follows, the number of bodies, and the framed bodies.
WirePayload(cmd, bodies) ==
    IF cmd \in {b_PUB, b_DPUB} THEN WireMsgs(bodies)
    ELSE IF cmd = b_MPUB
    THEN put_u32(4 + Len(WireMsgs(bodies))) \o put_u32(Len(bodies)) \o WireMsgs(bodies)
    ELSE <<>>

WireInputs ==
    {[cmd |-> cmd, bodies |-> bodies, after |-> after] :
        cmd \in WireCmds,
        bodies \in UNION {[1..k -> WireBodies] : k \in 0..MaxWireMsgs},
        after \in WireAfter}

\* A command as its sender frames it: PUB and DPUB carry one body, MPUB any
\* number, the others none.
WireFramed(in) ==
    Len(in.bodies) = (IF in.cmd \in {b_PUB, b_DPUB} THEN 1
                      ELSE IF in.cmd = b_MPUB THEN Len(in.bodies) ELSE 0)

WireRest == WirePayload(input.cmd, input.bodies) \o input.after

\* What a parser returned, and the bytes it left unread.
WireOut(by, kind, t, topic, channel, n, bodies, left) ==
    [by |-> by, kind |-> kind, t |-> t, topic |-> topic, channel |-> channel, n |-> n,
     bodies |-> bodies, left |-> left]
CodecOut(by, r) ==
    WireOut(by, r.out.kind, IF r.out.kind = "Err" THEN r.out.err ELSE r.out.frame.t,
            r.out.frame.a, r.out.frame.b, r.out.frame.n, r.out.frame.bodies, r.src)
ParserOut(by, r, left) ==
    WireOut(by, IF r.ok THEN "Frame" ELSE "Err", IF r.ok THEN r.t ELSE r.err,
            r.topic, r.channel, r.n, r.bodies, left)

\* CodecV2::decode is called once with the whole stream in src.
DecodeWire ==
    /\ ~Asked("CodecV2")
    /\ output' = Append(output, CodecOut("CodecV2",
                     CodecV2_decode(CodecV2_new, WireLine(input.cmd) \o <<LF>> \o WireRest)))
    /\ UNCHANGED <<topicVars, chanVars, now, procVars, histVars, connVars, guidVars, codecVars,
                   sysVars, input>>

\* CodecV2::decode is called with the line and the first k bytes after it in
\* src, and, when it returns Ok(None), again after the others were appended.
DecodeWireTwice(k) ==
    /\ ~Asked("CodecV2 twice")
    /\ k <= Len(WireRest)
    /\ \E first \in {CodecV2_decode(CodecV2_new,
                         WireLine(input.cmd) \o <<LF>> \o SubSeq(WireRest, 1, k))} :
         \E r \in {IF first.out.kind # "None" THEN first
                   ELSE CodecV2_decode(first.codec, first.src \o Drain(WireRest, k))} :
            output' = Append(output, CodecOut("CodecV2 twice",
                         [r EXCEPT !.src = IF first.out.kind # "None"
                                           THEN first.src \o Drain(WireRest, k) ELSE r.src]))
    /\ UNCHANGED <<topicVars, chanVars, now, procVars, histVars, connVars, guidVars, codecVars,
                   sysVars, input>>

\* Frame::parse reads the stream: read_until hands it the line with its '\n'.
\* It leaves unread what the body readers did not take.
ParseWire ==
    /\ ~Asked("Frame::parse")
    /\ LET r == Frame_parse(WireLine(input.cmd) \o <<LF>>, WireRest)
           left == IF ~r.ok THEN WireRest
                   ELSE IF r.t \in {"PUB", "DPUB"} THEN read_msg_body(WireRest).rest
                   ELSE IF r.t = "MPUB"
                   THEN read_bodies(Drain(WireRest, 8), U32(Drain(WireRest, 4))).rest
                   ELSE WireRest
       IN output' = Append(output, ParserOut("Frame::parse", r, left))
    /\ UNCHANGED <<topicVars, chanVars, now, procVars, histVars, connVars, guidVars, codecVars,
                   sysVars, input>>

\* The body readers of command.rs are called on the bytes after the line, with
\* the topic name of the line: parse_pub for PUB and DPUB (read_msg_body),
\* parse_mpub for MPUB.
ParseBodies ==
    /\ ~Asked("command.rs")
    /\ input.cmd \in {b_PUB, b_DPUB, b_MPUB}
    /\ LET r == IF input.cmd = b_MPUB THEN parse_mpub(WireRest, b_ab)
                ELSE parse_pub(WireRest, b_ab)
           left == IF ~r.ok THEN WireRest
                   ELSE IF input.cmd = b_MPUB
                   THEN read_bodies(Drain(WireRest, 8), U32(Drain(WireRest, 4))).rest
                   ELSE read_msg_body(WireRest).rest
       IN output' = Append(output, ParserOut("command.rs", r, left))
    /\ UNCHANGED <<topicVars, chanVars, now, procVars, histVars, connVars, guidVars, codecVars,
                   sysVars, input>>

InitWire ==
    /\ CoreInit /\ GuidInit /\ CodecInit
    /\ input \in {in \in WireInputs : WireFramed(in)}
    /\ output = <<>>

NextWire ==
    \/ DecodeWire
    \/ \E k \in 0..MaxChunk : DecodeWireTwice(k)
    \/ ParseWire
    \/ ParseBodies

SpecWire == InitWire /\ [][NextWire]_vars

\* The outputs of the parser named by.
OutputsBy(by) == {output[i] : i \in {i \in 1..Len(output) : output[i].by = by}}

\* C31: for PUB and DPUB every decoder returns a frame whose body is the N
\* bytes after the 4-byte length N, and leaves unread exactly the bytes of the
\* command that follows.
C31_BodyIsTheNBytes ==
    input.cmd \in {b_PUB, b_DPUB} =>
        \A o \in OutputsBy("CodecV2") \cup OutputsBy("Frame::parse") \cup OutputsBy("command.rs") :
            /\ o.kind = "Frame"
            /\ o.bodies = input.bodies
            /\ o.left = input.after

\* C32: an MPUB of N >= 1 bodies is decoded, by every decoder and also when
\* the bytes after the line arrive over two decode calls, to a frame of those
\* N bodies in their order, leaving unread the bytes of the command that
\* follows; an MPUB of no body is refused with an error.
C32_MpubBodies ==
    input.cmd = b_MPUB =>
        \A o \in OutputsBy("CodecV2") \cup OutputsBy("CodecV2 twice")
                    \cup OutputsBy("Frame::parse") \cup OutputsBy("command.rs") :
            IF Len(input.bodies) >= 1
            THEN o.kind = "Frame" /\ o.bodies = input.bodies /\ o.left = input.after
            ELSE o.kind = "Err"

\* --------------------------------------- the arguments of RDY, FIN, TOUCH, REQ
\* n written in decimal.
RECURSIVE ToDigits(_)
ToDigits(n) == IF n < 10 THEN <<48 + n>> ELSE Append(ToDigits(n \div 10), 48 + (n % 10))

\* The counts a consumer writes after RDY: every number up to one past the
\* largest u64, and "", "-1", "+7", "x".
RdyArgs ==
    {ToDigits(n) : n \in 0..(2 ^ U64Width + 1)} \cup {<<>>, <<45, 49>>, <<PLUS, 55>>, <<120>>}
\* The ids it writes after FIN, TOUCH and REQ: '0' repeated.
IdArgs == {Run(48, k) : k \in 0..(MSG_ID_LENGTH + MaxIdExtra)}

SubArgInputs ==
    {[cmd |-> b_RDY, arg |-> a] : a \in RdyArgs}
    \cup {[cmd |-> c, arg |-> a] : c \in {b_FIN, b_TOUCH, b_REQ}, a \in IdArgs}

\* The line: the command, its argument and, for REQ, a timeout of 5 ms.
SubArgLine ==
    IF input.cmd = b_REQ THEN LineBytes(input.cmd, <<input.arg, b_5>>)
    ELSE LineBytes(input.cmd, <<input.arg>>)

SubArgOut(by, kind, t, id, n) == [by |-> by, kind |-> kind, t |-> t, id |-> id, n |-> n]
SubParserOut(by, r) ==
    SubArgOut(by, IF r.ok THEN "Frame" ELSE "Err", IF r.ok THEN r.t ELSE r.err, r.id, r.n)

\* CodecSubV2::decode is called with the line and its '\n' in src.
DecodeSubArg ==
    /\ ~Asked("CodecSubV2")
    /\ LET r == CodecSubV2_decode(CodecV2_new, SubArgLine \o <<LF>>) IN
       output' = Append(output,
                     SubArgOut("CodecSubV2", r.out.kind,
                               IF r.out.kind = "Err" THEN r.out.err ELSE r.out.frame.t,
                               r.out.frame.a, r.out.frame.n))
    /\ UNCHANGED <<topicVars, chanVars, now, procVars, histVars, connVars, guidVars, codecVars,
                   sysVars, input>>

\* FrameSub::parse reads the line: read_until hands it the line with its '\n'.
ParseSubArg ==
    /\ ~Asked("FrameSub::parse")
    /\ output' = Append(output, SubParserOut("FrameSub::parse", FrameSub_parse(SubArgLine \o <<LF>>)))
    /\ UNCHANGED <<topicVars, chanVars, now, procVars, histVars, connVars, guidVars, codecVars,
                   sysVars, input>>

\* parse_rdy, parse_fin and parse_touch are called on the argument alone.
CallSubParser ==
    /\ ~Asked("command.rs")
    /\ input.cmd \in {b_RDY, b_FIN, b_TOUCH}
    /\ output' = Append(output, SubParserOut("command.rs",
                     IF input.cmd = b_RDY THEN parse_rdy(input.arg)
                     ELSE IF input.cmd = b_FIN THEN parse_fin(input.arg)
                     ELSE parse_touch(input.arg)))
    /\ UNCHANGED <<topicVars, chanVars, now, procVars, histVars, connVars, guidVars, codecVars,
                   sysVars, input>>

InitSubArgs ==
    /\ CoreInit /\ GuidInit /\ CodecInit
    /\ input \in SubArgInputs
    /\ output = <<>>

NextSubArgs ==
    \/ DecodeSubArg
    \/ ParseSubArg
    \/ CallSubParser

SpecSubArgs == InitSubArgs /\ [][NextSubArgs]_vars

\* The number a count is written as: digits after an optional '+'.
Written(a) == IF a # <<>> /\ a[1] = PLUS THEN Tail(a) ELSE a
IsNumber(a) == Written(a) # <<>> /\ \A i \in 1..Len(Written(a)) : Written(a)[i] \in Digits

\* C33: whatever is written after RDY, each decoder either refuses the line
\* with an error or returns an RDY frame whose count is the number written,
\* which is not negative.
C33_RdyCountNonNegative ==
    input.cmd = b_RDY =>
        \A i \in 1..Len(output) :
            \/ output[i].kind = "Err"
            \/ /\ output[i].kind = "Frame" /\ output[i].t = "RDY"
               /\ output[i].n >= 0
               /\ IsNumber(input.arg) /\ output[i].n = DigitsValue(Written(input.arg))

\* C34: FIN, TOUCH and REQ with an id that is not of MSG_ID_LENGTH bytes are
\* refused with E_INVALID by each decoder.
C34_IdOfSixteenBytes ==
    (input.cmd \in {b_FIN, b_TOUCH, b_REQ} /\ Len(input.arg) # MSG_ID_LENGTH) =>
        \A i \in 1..Len(output) : output[i].kind = "Err" /\ output[i].t = "E_INVALID"

\* ------------------------------------------------------------- guid_to_hex
\* i64::to_be_bytes: the 8 bytes of the two's complement, the most significant
\* first (\div rounds down, so a negative guid is extended with 1 bits).
to_be_bytes(guid) == put_uint(guid, 8)

\* hex::encode_to_slice: two characters of "0123456789abcdef" for each byte,
\* the high half first.
HEX_CHARS_LOWER == <<48, 49, 50, 51, 52, 53, 54, 55, 56, 57, 97, 98, 99, 100, 101, 102>>
RECURSIVE encode_to_slice(_)
encode_to_slice(bytes) ==
    IF bytes = <<>> THEN <<>>
    ELSE <<HEX_CHARS_LOWER[Head(bytes) \div 16 + 1], HEX_CHARS_LOWER[(Head(bytes) % 16) + 1]>>
             \o encode_to_slice(Tail(bytes))

\* guid_to_hex with the bytes of the guid taken the least significant first.
guid_to_hex_LittleEndian(guid) ==
    encode_to_slice([i \in 1..8 |-> to_be_bytes(guid)[9 - i]])

\* guid_to_hex (guid.rs:81-86).  The slice given to encode_to_slice has twice
\* the length of the bytes, so its unwrap does not panic.
guid_to_hex(guid) == encode_to_slice(to_be_bytes(guid))

\* The guids rendered: every guid of GuidWidth bits, and 1234567890 of
\* test_guid_to_hex (guid.rs:103-108).
TestGuid == 1234567890
HexGuids == (-(2 ^ (GuidWidth - 1)))..(2 ^ (GuidWidth - 1) - 1) \cup {TestGuid}

GuidToHex(guid) ==
    /\ Len(output) < MaxHexCalls
    /\ output' = Append(output, [guid |-> guid, hex |-> guid_to_hex(guid)])
    /\ UNCHANGED <<topicVars, chanVars, now, procVars, histVars, connVars, guidVars, codecVars,
                   sysVars, input>>

InitHex ==
    /\ CoreInit /\ GuidInit /\ CodecInit
    /\ input = <<>>
    /\ output = <<>>

NextHex == \E guid \in HexGuids : GuidToHex(guid)

SpecHex == InitHex /\ [][NextHex]_vars

\* The w hexadecimal digits of v, the most significant first.
RECURSIVE Nibbles(_, _)
Nibbles(v, w) == IF w = 0 THEN <<>> ELSE Append(Nibbles(v \div 16, w - 1), v % 16)
HexDigit(d) == IF d < 10 THEN 48 + d ELSE 97 + (d - 10)

\* "00000000499602d2"
b_499602d2 == <<48, 48, 48, 48, 48, 48, 48, 48, 52, 57, 57, 54, 48, 50, 100, 50>>

\* C35: the id guid_to_hex returns is 16 characters, the 16 hexadecimal
\* digits of the guid's 64 bits from the most significant on, in lower case;
\* 1234567890 gives 00000000499602d2; two guids that differ give ids that differ.
C35_GuidToHex ==
    /\ \A i \in 1..Len(output) :
          /\ Len(output[i].hex) = MSG_ID_LENGTH
          /\ output[i].hex = [k \in 1..MSG_ID_LENGTH |-> HexDigit(Nibbles(output[i].guid, MSG_ID_LENGTH)[k])]
          /\ output[i].guid = TestGuid => output[i].hex = b_499602d2
    /\ \A i, j \in 1..Len(output) :
          output[i].guid # output[j].guid => output[i].hex # output[j].hex

\* C35's case: 1234567890 and a negative guid were rendered.
C35_Witness ==
    /\ Len(output) = 2
    /\ output[1].guid = TestGuid
    /\ output[2].guid < 0

\* ----------------------------------------------------- NSQD::publish_msg
\* Callers of publish_msg for one topic name, each on its own thread; every
\* call of the DashMap is one step.  pc is the caller's position.
\* `if !self.topic_map.contains_key(&topic_name)` (nsqd.rs:103).
PublishCheck(p) ==
    /\ pc[p] = "idle"
    /\ calls < MaxCalls
    /\ calls' = calls + 1
    /\ pc' = [pc EXCEPT ![p] = IF nsqd.topic_map = 0 THEN "insert" ELSE "get_mut"]
    /\ UNCHANGED <<topicVars, chanVars, now, arg, snap, res, lock, histVars, extVars>>

\* `self.topic_map.insert(topic_name.clone(), Topic::new(..))` (nsqd.rs:104-107):
\* insert puts the new Topic under the name, over the one that is there.
PublishInsert(p) ==
    /\ pc[p] = "insert"
    /\ nsqd' = [nsqd EXCEPT !.topics = @ + 1, !.topic_map = nsqd.topics + 1]
    /\ pc' = [pc EXCEPT ![p] = "get_mut"]
    /\ UNCHANGED <<topicVars, chanVars, now, arg, snap, res, calls, lock, histVars, connVars,
                   guidVars, codecVars, fnVars>>

\* `self.topic_map.get_mut(&topic_name).unwrap()` and `tp.put_msg(msg)?`
\* (nsqd.rs:110-112), under the guard of get_mut.
PublishPut(p) ==
    /\ pc[p] = "get_mut"
    /\ nsqd' = [nsqd EXCEPT !.published = Append(@, [by |-> p, topic |-> nsqd.topic_map])]
    /\ pc' = [pc EXCEPT ![p] = "idle"]
    /\ UNCHANGED <<topicVars, chanVars, now, arg, snap, res, calls, lock, histVars, connVars,
                   guidVars, codecVars, fnVars>>

NextPublish ==
    \E p \in Procs :
        \/ PublishCheck(p)
        \/ PublishInsert(p)
        \/ PublishPut(p)

SpecPublish == Init /\ [][NextPublish]_vars

\* C36: one Topic object at most is made for the name, and every message
\* published is put to the same Topic.
C36_OneTopicPerName ==
    /\ nsqd.topics <= 1
    /\ \A i, j \in 1..Len(nsqd.published) :
          nsqd.published[i].topic = nsqd.published[j].topic

\* ------------------------------- add_channel on a Channel that has consumers
\* Topic::add_channel is called while, once the Channel of Chan is in the
\* map, consumers are registered with it and removed by add_client and exit.
NextRegister ==
    \/ \E n \in ChannelNames, cid \in ClientIds : AddChannel(n, cid)
    \/ channel_map[Chan] # 0 /\ NextClients

SpecRegister == Init /\ [][NextRegister]_vars

\* C37: a step of add_channel (the callers of add_client and exit do not
\* move) leaves every name that is in the map with the Channel it had and that
\* Channel with the consumers it had, and add_channel for such a name
\* returns Ok.
C37_ExistingChannelUntouched ==
    [][UNCHANGED procVars =>
          /\ \A n \in ChannelNames :
                channel_map[n] # 0 =>
                    /\ channel_map'[n] = channel_map[n]
                    /\ clients'[n] = clients[n]
                    /\ created'[n] = created[n]
          /\ \A r \in addResults' : r[1] => r[2] = "Ok"]_vars

\* C37's case: add_channel was called for a name in the map, and the Channel
\* of the name holds as many consumers as max_channel_subscribers allows.
C37_Witness ==
    /\ <<TRUE, "Ok">> \in addResults
    /\ channel_map[Chan] # 0
    /\ Cardinality(clients[Chan]) = MaxChannelSubscribers

\* ---------------------------------------------------------------- Shutdown
\* `shutdown_tx.send(())`: the shutdown broadcast.
ShutdownSend ==
    /\ nsqd.shutdown_tx = "alive"
    /\ nsqd.signals < MaxSignals
    /\ nsqd' = [nsqd EXCEPT !.signals = @ + 1]
    /\ UNCHANGED <<topicVars, chanVars, now, procVars, histVars, connVars, guidVars, codecVars,
                   fnVars>>

\* The broadcast::Sender is dropped.
ShutdownDropSender ==
    /\ nsqd.shutdown_tx = "alive"
    /\ nsqd' = [nsqd EXCEPT !.shutdown_tx = "dropped"]
    /\ UNCHANGED <<topicVars, chanVars, now, procVars, histVars, connVars, guidVars, codecVars,
                   fnVars>>

\* Clone for Shutdown (shutdown.rs:36-43), and NSQD::shutdown_rx for h = 1
\* (nsqd.rs:202-204): is_shutdown is copied, and notify.resubscribe() makes a
\* receiver that starts after the last value sent so far.
ShutdownClone(h) ==
    /\ h <= Len(nsqd.handles)
    /\ Len(nsqd.handles) < MaxHandles
    /\ nsqd' = [nsqd EXCEPT !.handles =
                   Append(@, [Shutdown_new(nsqd.signals) EXCEPT
                                 !.is_shutdown = nsqd.handles[h].is_shutdown])]
    /\ UNCHANGED <<topicVars, chanVars, now, procVars, histVars, connVars, guidVars, codecVars,
                   fnVars>>

\* recv() is called on handle h (shutdown.rs:20-25): it returns at once when
\* is_shutdown, and else awaits notify.recv().
ShutdownRecvCall(h) ==
    /\ h <= Len(nsqd.handles)
    /\ nsqd.handles[h].pc = "idle"
    /\ nsqd.handles[h].returned < MaxRecvs
    /\ nsqd' = IF nsqd.handles[h].is_shutdown
               THEN [nsqd EXCEPT !.handles[h].returned = @ + 1]
               ELSE [nsqd EXCEPT !.handles[h].pc = "recv"]
    /\ UNCHANGED <<topicVars, chanVars, now, procVars, histVars, connVars, guidVars, codecVars,
                   fnVars>>

\* notify.recv() completes (shutdown.rs:25-26): with a value sent after the
\* receiver's position (Ok or Lagged), or with Closed when the sender was
\* dropped; the result is discarded and is_shutdown set.
ShutdownRecvReturn(h) ==
    /\ h <= Len(nsqd.handles)
    /\ nsqd.handles[h].pc = "recv"
    /\ nsqd.handles[h].pos < nsqd.signals \/ nsqd.shutdown_tx = "dropped"
    /\ nsqd' = [nsqd EXCEPT !.handles[h] =
                   [@ EXCEPT !.pc = "idle", !.is_shutdown = TRUE, !.returned = @ + 1,
                             !.pos = IF @ < nsqd.signals THEN @ + 1 ELSE @]]
    /\ UNCHANGED <<topicVars, chanVars, now, procVars, histVars, connVars, guidVars, codecVars,
                   fnVars>>

NextHandles ==
    \/ ShutdownSend
    \/ ShutdownDropSender
    \/ \E h \in 1..MaxHandles : ShutdownClone(h)
    \/ \E h \in 1..MaxHandles : ShutdownRecvCall(h)
    \/ \E h \in 1..MaxHandles : ShutdownRecvReturn(h)

\* A recv() that can complete does: the runtime wakes the task awaiting it.
SpecHandles ==
    /\ Init
    /\ [][NextHandles]_vars
    /\ \A h \in 1..MaxHandles : WF_vars(ShutdownRecvReturn(h))

\* C38: on every handle, a recv() that is awaited when the shutdown value has
\* been sent or the sender dropped returns.
C38_RecvReturnsAfterShutdown ==
    \A h \in 1..MaxHandles :
        (/\ h <= Len(nsqd.handles)
         /\ nsqd.handles[h].pc = "recv"
         /\ nsqd.signals > 0 \/ nsqd.shutdown_tx = "dropped")
            ~> (/\ h <= Len(nsqd.handles)
                /\ nsqd.handles[h].pc = "idle"
                /\ nsqd.handles[h].is_shutdown)

\* ------------------------------------------------ Frame::parse and CodecV2
\* C39: on every stream Frame::parse and CodecV2::decode agree: both return a
\* frame or both an error, and the frames have the same command, topic,
\* channel, delay and bodies.
C39_ParsersAgree ==
    \A p \in OutputsBy("Frame::parse") :
        \A c \in OutputsBy("CodecV2") :
            /\ p.kind = c.kind
            /\ p.kind = "Frame" =>
                  /\ p.t = c.t
                  /\ p.topic = c.topic
                  /\ p.channel = c.channel
                  /\ p.n = c.n
                  /\ p.bodies = c.bodies

\* ------------------------------------------------------------------ Counter
\* The Counter of one subscriber, called by the tasks of Procs at the same
\* time.  Every fetch_add and fetch_sub is one step (Ordering::SeqCst); a call
\* of two of them is between them at pc "sending_msg", "finished_msg" or
\* "requeue_msg".  output counts the calls made: per method, the sending_msg
\* calls that returned, whether every finished_msg, requeue_msg and
\* timed_out_msg was called for a message whose sending_msg had returned
\* (paired), and whether a call was made while another was in progress.
CounterConn == CHOOSE c \in ConnIds : TRUE

NoCounterCalls ==
    [sending |-> 0, sent |-> 0, finished |-> 0, requeue |-> 0, timed_out |-> 0,
     paired |-> TRUE, overlapped |-> FALSE]

\* The messages handed to the subscriber and not yet finished, requeued or
\* timed out.
Outstanding == output.sent - (output.finished + output.requeue + output.timed_out)

CounterBusy == \E q \in Procs : pc[q] # "idle"

CounterCalled(op) ==
    [output EXCEPT ![op] = @ + 1,
                   !.paired = @ /\ (op = "sending" \/ Outstanding > 0),
                   !.overlapped = @ \/ CounterBusy]

\* The variables a call of the Counter leaves alone.
CounterFrame ==
    UNCHANGED <<topicVars, chanVars, now, arg, snap, res, lock, histVars, subPc, clientPc,
                written, connLog, guidVars, codecVars, input, sysVars>>

\* A call starts: it is counted, and the caller is at next_pc.
CounterCall(p, op, next_pc) ==
    /\ pc[p] = "idle"
    /\ calls < MaxCounterCalls
    /\ calls' = calls + 1
    /\ pc' = [pc EXCEPT ![p] = next_pc]
    /\ output' = CounterCalled(op)

\* sending_msg (client_v2.rs:293-296):
\* `self.in_flight_count.fetch_add(1, ..)`, then
\* `self.message_count.fetch_add(1, ..)`.
sending_msg(p) ==
    \/ /\ CounterCall(p, "sending", "sending_msg")
       /\ counter' = [counter EXCEPT ![CounterConn].in_flight_count = @ + 1]
       /\ CounterFrame
    \/ /\ pc[p] = "sending_msg"
       /\ counter' = [counter EXCEPT ![CounterConn].message_count = @ + 1]
       /\ pc' = [pc EXCEPT ![p] = "idle"]
       /\ output' = [output EXCEPT !.sent = @ + 1]
       /\ calls' = calls
       /\ CounterFrame

\* finished_msg with its second line left out.
finished_msg_KeepsInFlight(p) ==
    \/ /\ CounterCall(p, "finished", "finished_msg")
       /\ counter' = [counter EXCEPT ![CounterConn].finish_count = @ + 1]
       /\ CounterFrame
    \/ /\ pc[p] = "finished_msg"
       /\ pc' = [pc EXCEPT ![p] = "idle"]
       /\ UNCHANGED <<counter, output, calls>>
       /\ CounterFrame

\* finished_msg (client_v2.rs:274-278):
\* `self.finish_count.fetch_add(1, ..)`, then
\* `self.in_flight_count.fetch_sub(1, ..)`.
finished_msg(p) ==
    \/ /\ CounterCall(p, "finished", "finished_msg")
       /\ counter' = [counter EXCEPT ![CounterConn].finish_count = @ + 1]
       /\ CounterFrame
    \/ /\ pc[p] = "finished_msg"
       /\ counter' = [counter EXCEPT ![CounterConn].in_flight_count = @ - 1]
       /\ pc' = [pc EXCEPT ![p] = "idle"]
       /\ UNCHANGED <<output, calls>>
       /\ CounterFrame

\* requeue_msg (client_v2.rs:287-291):
\* `self.requeue_count.fetch_add(1, ..)`, then
\* `self.in_flight_count.fetch_sub(1, ..)`.
requeue_msg(p) ==
    \/ /\ CounterCall(p, "requeue", "requeue_msg")
       /\ counter' = [counter EXCEPT ![CounterConn].requeue_count = @ + 1]
       /\ CounterFrame
    \/ /\ pc[p] = "requeue_msg"
       /\ counter' = [counter EXCEPT ![CounterConn].in_flight_count = @ - 1]
       /\ pc' = [pc EXCEPT ![p] = "idle"]
       /\ UNCHANGED <<output, calls>>
       /\ CounterFrame

\* timed_out_msg (client_v2.rs:298-301): `self.in_flight_count.fetch_sub(1, ..)`.
timed_out_msg(p) ==
    /\ CounterCall(p, "timed_out", "idle")
    /\ counter' = [counter EXCEPT ![CounterConn].in_flight_count = @ - 1]
    /\ CounterFrame

InitCounter ==
    /\ CoreInit /\ GuidInit /\ CodecInit
    /\ input = <<>>
    /\ output = NoCounterCalls

NextCounter ==
    \E p \in Procs :
        \/ sending_msg(p)
        \/ finished_msg(p)
        \/ requeue_msg(p)
        \/ timed_out_msg(p)

SpecCounter == InitCounter /\ [][NextCounter]_vars

\* C40: when no call of the Counter is in progress, message_count,
\* finish_count and requeue_count are the numbers of sending_msg, finished_msg
\* and requeue_msg calls made, in_flight_count is the number of sending_msg
\* calls less those of finished_msg, requeue_msg and timed_out_msg, and
\* in_flight_count is not negative when each of these three was called for a
\* message whose sending_msg had returned.
C40_CounterAtRest ==
    ~CounterBusy =>
        /\ counter[CounterConn].message_count = output.sending
        /\ counter[CounterConn].finish_count = output.finished
        /\ counter[CounterConn].requeue_count = output.requeue
        /\ counter[CounterConn].in_flight_count =
              output.sending - (output.finished + output.requeue + output.timed_out)
        /\ output.paired => counter[CounterConn].in_flight_count >= 0

\* C40's case: calls of the four methods were made, some of them while another
\* was in progress, each of the last three for a message sent, and all returned.
C40_Witness ==
    /\ ~CounterBusy
    /\ output.overlapped /\ output.paired
    /\ output.sending >= 3
    /\ output.finished >= 1 /\ output.requeue >= 1 /\ output.timed_out >= 1

=============================================================================
